---- MODULE Spec2Model ----
(***************************************************************************)
(* A state-machine model of gen-pr: the main pipeline (src/src/main.ts),   *)
(* the issue context collector (issue.ts), the plan extractor (plan.ts),   *)
(* the header-block extractor (markdown.ts) and the test/fix loop          *)
(* (test.ts).                                                              *)
(*                                                                         *)
(* Strings of the program are sequences of one-character strings, so that  *)
(* indexOf, slice, trim and the regular expressions are computed rather    *)
(* than assumed.  An optional value (T | undefined) is a sequence of       *)
(* length at most one: <<>> is undefined, <<v>> is the value v.            *)
(***************************************************************************)
EXTENDS Integers, Sequences, FiniteSets, Bags, TLC

\* ------------------------------------------------------------------ bounds
\* Largest maxTestAttempts the test/fix specification draws.
MaxAttemptsBound == 3
\* Largest exit status a spawned process reports in the model.
MaxExitStatus == 2
\* Largest number of sections an answer of the LLM has in the planning
\* specification.
MaxSections == 3
\* Largest length of a text the header-block specification draws.
MaxTextLen == 5
\* Number of issues the code host of the issue-tree specification holds.
NumIssues == 4
\* The longest content between two headers of a round trip.
MaxContentLen == 2
\* The longest removal pattern and the longest body it is applied to.
MaxPatternLen == 3
MaxRedactedLen == 2
\* The longest content wrapped in a fence.
MaxFencedLen == 8
\* The most file sections of a diff.
MaxDiffSections == 6
\* The longest plan and transcript of a pull-request body, in units of
\* LengthUnit characters.
MaxBodyUnits == 9

\* ----------------------------------------------------------------- helpers
\* The backtick character: the one character of the program's texts that a
\* TLA+ string cannot hold.
Backtick == "BACKTICK"

None == <<>>
Some(x) == <<x>>
IsSome(o) == o /= <<>>

\* `opt || ''` for an optional string.
OrEmpty(opt) == IF opt = <<>> THEN <<>> ELSE opt[1]

\* An optional string taken as a condition: undefined and "" are falsy.
Truthy(opt) == OrEmpty(opt) /= <<>>

\* JavaScript white space (\s of a regular expression, String.prototype.trim):
\* WhiteSpace and LineTerminator of ECMAScript.  A character that a string
\* of this module cannot hold stands as its code point.
IsSpace(c) ==
  c \in {" ", "\n", "\t", "\r", "\f", "U+000B", "U+00A0", "U+1680", "U+2000", "U+2001",
         "U+2002", "U+2003", "U+2004", "U+2005", "U+2006", "U+2007", "U+2008", "U+2009",
         "U+200A", "U+2028", "U+2029", "U+202F", "U+205F", "U+3000", "U+FEFF"}

RECURSIVE TrimStart(_)
TrimStart(s) == IF s /= <<>> /\ IsSpace(Head(s)) THEN TrimStart(Tail(s)) ELSE s

RECURSIVE TrimEnd(_)
TrimEnd(s) ==
  IF s /= <<>> /\ IsSpace(s[Len(s)]) THEN TrimEnd(SubSeq(s, 1, Len(s) - 1)) ELSE s

\* String.prototype.trim
Trim(s) == TrimEnd(TrimStart(s))

\* s.slice(start, end) with 0-based start (inclusive) and end (exclusive).
Slice(s, start, end) == SubSeq(s, start + 1, end)

\* s.indexOf(search) from the 0-based position i: the 0-based index of the
\* first occurrence, -1 when there is none.
RECURSIVE IndexOfFrom(_, _, _)
IndexOfFrom(s, search, i) ==
  IF i + Len(search) > Len(s) THEN 0 - 1
  ELSE IF SubSeq(s, i + 1, i + Len(search)) = search THEN i
  ELSE IndexOfFrom(s, search, i + 1)

IndexOf(s, search) == IndexOfFrom(s, search, 0)

\* A number option that may be NaN (Number.parseInt of a non-numeric input).
\* A number is val / den: den is 1 for a whole number.
Num(v) == [nan |-> FALSE, val |-> v, den |-> 1]
NaN == [nan |-> TRUE, val |-> 0, den |-> 1]
\* v / 2: a number option given with a fraction (yargs `type: 'number'`).
Halves(v) == [nan |-> FALSE, val |-> v, den |-> 2]

\* a < n and a >= n for an integer a and a possibly-NaN number n: every
\* comparison with NaN is false.
JsLess(a, n) == ~n.nan /\ a * n.den < n.val
\* a > n: the comparison of a loop that gives up one failure too late.
JsGreater(a, n) == ~n.nan /\ a * n.den > n.val
JsGeq(a, n) == ~n.nan /\ a * n.den >= n.val

\* ------------------------------------------------ spawn.ts: command parsing
\* parseCommandLineArgs: the loop over the characters, with the state
\* (result, current, inDoubleQuote, inSingleQuote).
RECURSIVE ParseArgsFrom(_, _, _, _, _, _)
ParseArgsFrom(s, i, result, current, inD, inS) ==
  IF i > Len(s)
  THEN IF current /= <<>> THEN Append(result, current) ELSE result
  ELSE LET char == s[i] IN
       IF char = "\"" /\ ~inS THEN ParseArgsFrom(s, i + 1, result, current, ~inD, inS)
       ELSE IF char = "'" /\ ~inD THEN ParseArgsFrom(s, i + 1, result, current, inD, ~inS)
       ELSE IF char = " " /\ ~inD /\ ~inS
            THEN IF current /= <<>>
                 THEN ParseArgsFrom(s, i + 1, Append(result, current), <<>>, inD, inS)
                 ELSE ParseArgsFrom(s, i + 1, result, current, inD, inS)
       ELSE ParseArgsFrom(s, i + 1, result, Append(current, char), inD, inS)

\* The command taken whole as its own program, without parsing.
WholeCommand(argsString) == <<argsString>>

parseCommandLineArgs(argsString) ==
  IF argsString = <<>> THEN <<>>
  ELSE ParseArgsFrom(argsString, 1, <<>>, <<>>, FALSE, FALSE)

\* --------------------------------------------------------------- variables
VARIABLES
  options,        \* MainOptions of the run
  issues,         \* the code host: issue number -> what getIssue answers for it
  llm,            \* the texts callLlmApi answers with, in call order
  files,          \* the working directory: path -> what the path names
  pc,             \* where main (and the function it awaits) stands
  effects,        \* the external effects of main so far, in order
  apiCalls,       \* issue number -> how many times getIssue was called for it
  visited,        \* processedIssues: the set createIssueInfo shares with every call
  tasks,          \* the calls of fetchIssueData, in the order they were made
  issueInfo,      \* what createIssueInfo returned to main (optional)
  plan,           \* the locals of planCodeChanges
  resolutionPlan, \* what planCodeChanges returned to main (optional)
  test,           \* the locals of testAndFix and its returned TestResult
  main,           \* the locals of main
  host,           \* the pull requests created on the code host, in order
  call,           \* a function of the program called on its own: name and arguments
  value           \* what that call returned (optional)

envVars == <<options, issues, llm, files>>
issueVars == <<apiCalls, visited, tasks, issueInfo>>
planVars == <<plan, resolutionPlan>>
callVars == <<call, value>>
vars == <<envVars, callVars, pc, effects, issueVars, planVars, test, main, host>>

CodingTools == {"aider", "claude-code", "codex-cli", "gemini-cli"}

\* One entry of `effects`: an external call main (or a function it awaits)
\* made, or the exit status a spawned process reported.
Ev(op, arg) == [op |-> op, arg |-> arg]

\* The entries of `effects` with the given op, in order.
EffectsOf(op) == SelectSeq(effects, LAMBDA e : e.op = op)

\* --------------------------------------------------- issue.ts: pure parts
IsDigit(c) == c \in {"0", "1", "2", "3", "4", "5", "6", "7", "8", "9"}
DigitValue(c) ==
  CASE c = "0" -> 0 [] c = "1" -> 1 [] c = "2" -> 2 [] c = "3" -> 3 [] c = "4" -> 4
    [] c = "5" -> 5 [] c = "6" -> 6 [] c = "7" -> 7 [] c = "8" -> 8 [] c = "9" -> 9
DigitChar(n) == <<"0", "1", "2", "3", "4", "5", "6", "7", "8", "9">>[n + 1]

\* The end (exclusive, 1-based) of the run of digits that starts at i.
RECURSIVE DigitsEnd(_, _)
DigitsEnd(s, i) == IF i <= Len(s) /\ IsDigit(s[i]) THEN DigitsEnd(s, i + 1) ELSE i

\* Number.parseInt(digits, 10)
RECURSIVE ParseInt(_, _)
ParseInt(digits, acc) ==
  IF digits = <<>> THEN acc
  ELSE ParseInt(Tail(digits), acc * 10 + DigitValue(Head(digits)))

\* Duplicates removed with the last occurrences kept.
RECURSIVE DedupeKeepLast(_, _)
DedupeKeepLast(numbers, seen) ==
  IF numbers = <<>> THEN <<>>
  ELSE IF \E i \in 2..Len(numbers) : numbers[i] = Head(numbers)
       THEN DedupeKeepLast(Tail(numbers), seen)
       ELSE <<Head(numbers)>> \o DedupeKeepLast(Tail(numbers), seen)

\* [...new Set(numbers)]: duplicates removed, first occurrences kept in order.
RECURSIVE Dedupe(_, _)
Dedupe(numbers, seen) ==
  IF numbers = <<>> THEN <<>>
  ELSE IF Head(numbers) \in seen THEN Dedupe(Tail(numbers), seen)
  ELSE <<Head(numbers)>> \o Dedupe(Tail(numbers), seen \cup {Head(numbers)})

\* The exec loop of extractIssueReferences over /(?:^|\s)#(\d+)/g from the
\* 1-based position i: a match is a "#" at the start of the text or after a
\* whitespace character, followed by at least one digit; the loop resumes
\* after the digits.
RECURSIVE MatchReferences(_, _)
MatchReferences(text, i) ==
  IF i > Len(text) THEN <<>>
  ELSE IF /\ text[i] = "#"
          /\ (i = 1 \/ IsSpace(text[i - 1]))
          /\ i + 1 <= Len(text)
          /\ IsDigit(text[i + 1])
       THEN LET e == DigitsEnd(text, i + 1) IN
            <<ParseInt(SubSeq(text, i + 1, e - 1), 0)>> \o MatchReferences(text, e)
       ELSE MatchReferences(text, i + 1)

extractIssueReferences(text) == Dedupe(MatchReferences(text, 1), {})

\* [a, b, ...].join('\n')
RECURSIVE JoinLines(_)
JoinLines(parts) ==
  IF parts = <<>> THEN <<>>
  ELSE IF Len(parts) = 1 THEN parts[1]
  ELSE parts[1] \o <<"\n">> \o JoinLines(Tail(parts))

\* text.replaceAll('\r\n', '\n')
RECURSIVE ReplaceCrLf(_)
ReplaceCrLf(s) ==
  IF s = <<>> THEN <<>>
  ELSE IF Len(s) >= 2 /\ s[1] = "\r" /\ s[2] = "\n" THEN <<"\n">> \o ReplaceCrLf(Tail(Tail(s)))
  ELSE <<Head(s)>> \o ReplaceCrLf(Tail(s))

normalizeNewLines(text) == Trim(ReplaceCrLf(text))

\* new Date(date).getTime(): a date of the API is Some(t) for the text of
\* the instant t and None for a text that is no date (the empty string of
\* octokit.ts line 221); the latter gives NaN.
GetTime(date) == IF date = None THEN NaN ELSE Num(date[1])

\* (a, b) => a.createdAt - b.createdAt is positive: a difference with NaN is
\* NaN, which sort takes as +0.
DateAfter(a, b) ==
  /\ ~a.createdAt.nan
  /\ ~b.createdAt.nan
  /\ a.createdAt.val > b.createdAt.val

\* Array.prototype.sort((a, b) => a.createdAt - b.createdAt): a stable sort.
RECURSIVE InsertByDate(_, _)
InsertByDate(sorted, c) ==
  IF sorted = <<>> THEN <<c>>
  ELSE IF ~DateAfter(sorted[Len(sorted)], c) THEN Append(sorted, c)
  ELSE Append(InsertByDate(SubSeq(sorted, 1, Len(sorted) - 1), c), sorted[Len(sorted)])

RECURSIVE SortByDate(_)
SortByDate(cs) ==
  IF cs = <<>> THEN <<>>
  ELSE InsertByDate(SortByDate(SubSeq(cs, 1, Len(cs) - 1)), cs[Len(cs)])

\* .map(({ createdAt, ...comment }) => comment)
StripDate(c) ==
  [author |-> c.author, body |-> c.body, codeLocation |-> c.codeLocation,
   codeContent |-> c.codeContent, reviewState |-> c.reviewState]

MapStripDate(cs) == [i \in 1..Len(cs) |-> StripDate(cs[i])]

\* Lines 80-83: the comments of the node from commentsWithDate.
FinalComments(commentsWithDate) ==
  MapStripDate(SortByDate(SelectSeq(commentsWithDate, LAMBDA c : c.body /= <<>>)))

\* The comparator of line 82 is consistent on the comments: no date is NaN,
\* or the dates that are numbers are all the same (NaN compares as equal to
\* every date, so two different numbers beside it break transitivity).
ConsistentDates(cs) ==
  \/ \A i \in 1..Len(cs) : ~cs[i].createdAt.nan
  \/ \A i \in 1..Len(cs), j \in 1..Len(cs) :
       (~cs[i].createdAt.nan /\ ~cs[j].createdAt.nan)
         => cs[i].createdAt.val = cs[j].createdAt.val

\* The orders of the elements of cs.
Orderings(cs) == {[i \in 1..Len(cs) |-> cs[p[i]]] : p \in Permutations(1..Len(cs))}

\* Lines 80-83 as a relation: with a comparator that is not consistent the
\* order sort leaves is defined by the implementation, any order is possible.
FinalCommentsOutcomes(commentsWithDate) ==
  IF ConsistentDates(commentsWithDate) THEN {FinalComments(commentsWithDate)}
  ELSE {MapStripDate(cs) :
          cs \in Orderings(SelectSeq(commentsWithDate, LAMBDA c : c.body /= <<>>))}

\* Line 56-60: a plain comment of the issue, with its date.
PlainComment(c) ==
  [author |-> c.author, body |-> normalizeNewLines(c.body), createdAt |-> GetTime(c.createdAt),
   codeLocation |-> None, codeContent |-> None, reviewState |-> None]

\* Line 50: the text the references are extracted from.
AllText(issue) ==
  JoinLines(<<issue.body>> \o [i \in 1..Len(issue.comments) |-> issue.comments[i].body])

\* getIssue(n) answers iff the host knows the issue and the request succeeds.
IssueAvailable(n) == n \in DOMAIN issues /\ issues[n].ok

\* ------------------------------------------- issue.ts: processDiffContent
\* A diff is too long for a tuple of characters to be handled one by one, so
\* a diff text is held as its run-length encoding: the sequence of its
\* maximal runs [c |-> character, n |-> length].  Every string has exactly
\* one encoding, so equal texts are equal values.
RunsAppend(runs, c, n) ==
  IF n <= 0 THEN runs
  ELSE IF runs /= <<>> /\ runs[Len(runs)].c = c
  THEN [runs EXCEPT ![Len(runs)].n = @ + n]
  ELSE Append(runs, [c |-> c, n |-> n])

\* a + b
RunsConcat(a, b) ==
  IF b = <<>> THEN a ELSE RunsAppend(a, b[1].c, b[1].n) \o Tail(b)

\* The encoding of a tuple of characters, by halves.
RECURSIVE Runs(_)
Runs(s) ==
  IF s = <<>> THEN <<>>
  ELSE IF Len(s) = 1 THEN <<[c |-> s[1], n |-> 1]>>
  ELSE LET half == Len(s) \div 2 IN
       RunsConcat(Runs(SubSeq(s, 1, half)), Runs(SubSeq(s, half + 1, Len(s))))

\* text.length
RunsLength(runs) == BagCardinality([j \in 1..Len(runs) |-> runs[j].n])

\* text.slice(0, m)
RECURSIVE RunsSlice(_, _)
RunsSlice(runs, m) ==
  IF runs = <<>> \/ m <= 0 THEN <<>>
  ELSE IF Len(runs) = 1
  THEN <<[c |-> runs[1].c, n |-> IF runs[1].n >= m THEN m ELSE runs[1].n]>>
  ELSE LET half == Len(runs) \div 2
           first == SubSeq(runs, 1, half)
           size == RunsLength(first)
       IN IF m <= size THEN RunsSlice(first, m)
          ELSE first \o RunsSlice(SubSeq(runs, half + 1, Len(runs)), m - size)

\* text.slice(m)
RECURSIVE RunsDrop(_, _)
RunsDrop(runs, m) ==
  IF runs = <<>> \/ m <= 0 THEN runs
  ELSE IF Len(runs) = 1
  THEN IF runs[1].n > m THEN <<[c |-> runs[1].c, n |-> runs[1].n - m]>> ELSE <<>>
  ELSE LET half == Len(runs) \div 2
           first == SubSeq(runs, 1, half)
           second == SubSeq(runs, half + 1, Len(runs))
           size == RunsLength(first)
       IN IF m >= size THEN RunsDrop(second, m - size)
          ELSE RunsDrop(first, m) \o second

\* The characters of an encoded text.
RECURSIVE RunsCharAt(_, _)
RunsCharAt(runs, i) ==
  IF Len(runs) = 1 THEN runs[1].c
  ELSE LET half == Len(runs) \div 2
           first == SubSeq(runs, 1, half)
           size == RunsLength(first)
       IN IF i <= size THEN RunsCharAt(first, i)
          ELSE RunsCharAt(SubSeq(runs, half + 1, Len(runs)), i - size)

Characters(runs) == [i \in 1..RunsLength(runs) |-> RunsCharAt(runs, i)]

\* The line terminators of a regular expression (^ with the m flag, and .).
IsLineTerminator(c) == c \in {"\n", "\r", "U+2028", "U+2029"}

\* The text has the encoded literal at the start of its run j: the runs
\* from j on are those of the literal, the last of them at least as long.
RunsStartWith(runs, j, literal) ==
  LET k == Len(literal) IN
  /\ j + k - 1 <= Len(runs)
  /\ SubSeq(runs, j, j + k - 2) = SubSeq(literal, 1, k - 1)
  /\ runs[j + k - 1].c = literal[k].c
  /\ runs[j + k - 1].n >= literal[k].n

\* The runs of the text that start a line: ^ with the m flag.  Inside a run
\* of line terminators a line starts with a line terminator, which no
\* pattern of processDiffContent matches.
LineStarts(runs) ==
  {j \in 1..Len(runs) : j = 1 \/ IsLineTerminator(runs[j - 1].c)}

\* The line the text starts with, without its line terminator.
RunsLine(runs) ==
  LET ends == {j \in 1..Len(runs) : IsLineTerminator(runs[j].c)} IN
  IF ends = {} THEN runs
  ELSE SubSeq(runs, 1, (CHOOSE j \in ends : \A i \in ends : j <= i) - 1)

\* The encoded line holds the encoded literal: the first run of the literal
\* is the end of a run of the line, and the literal goes on from the next run.
RunsInclude(line, literal) ==
  \E j \in 1..Len(line) :
    /\ line[j].c = literal[1].c
    /\ line[j].n >= literal[1].n
    /\ \/ Len(literal) = 1
       \/ RunsStartWith(line, j + 1, Tail(literal))

DiffGit == <<"d", "i", "f", "f", " ", "-", "-", "g", "i", "t">>

DiffGitA == DiffGit \o <<" ", "a", "/">>

\* The literals of the patterns, encoded.
DiffGitRuns == Runs(DiffGit)
DiffGitARuns == Runs(DiffGitA)
DistRuns == Runs(<<"d", "i", "s", "t", "/">>)
BuildRuns == Runs(<<"b", "u", "i", "l", "d", "/">>)
BundleRuns == Runs(<<".", "b", "u", "n", "d", "l", "e", ".">>)
MinRuns == Runs(<<".", "m", "i", "n", ".">>)
NodeModulesRuns == Runs(<<"n", "o", "d", "e", "_", "m", "o", "d", "u", "l", "e", "s", "/">>)

MAX_TOTAL_DIFF_SIZE == 50000
MAX_FILE_DIFF_SIZE == 10000

\* The test of the first of the LARGE_FILE_PATTERNS only.
IsInDist(section) ==
  \E j \in LineStarts(section) :
    /\ RunsStartWith(section, j, DiffGitARuns)
    /\ RunsStartWith(RunsDrop(RunsLine(SubSeq(section, j, Len(section))), Len(DiffGitA)),
                     1, DistRuns)

\* LARGE_FILE_PATTERNS.some((pattern) => pattern.test(section)): a line of
\* the section starts with "diff --git a/" followed by dist/, build/ or
\* node_modules/, or goes on with .bundle. or .min. somewhere.
IsLargeFile(section) ==
  \E j \in LineStarts(section) :
    /\ RunsStartWith(section, j, DiffGitARuns)
    /\ LET rest == RunsDrop(RunsLine(SubSeq(section, j, Len(section))), Len(DiffGitA)) IN
       \/ RunsStartWith(rest, 1, DistRuns)
       \/ RunsStartWith(rest, 1, BuildRuns)
       \/ RunsInclude(rest, BundleRuns)
       \/ RunsInclude(rest, MinRuns)
       \/ RunsStartWith(rest, 1, NodeModulesRuns)

\* diffContent.split(/(?=^diff --git)/m): the text is cut before every line
\* that starts with "diff --git"; a cut at position 0 gives no empty part.
SplitPoints(runs) ==
  {j \in 2..Len(runs) :
     IsLineTerminator(runs[j - 1].c) /\ RunsStartWith(runs, j, DiffGitRuns)}

\* The parts of the text that start at the given runs.
SectionsAt(runs, starts) ==
  LET Nth(k) == CHOOSE j \in starts \cup {Len(runs) + 1} :
                  Cardinality({i \in starts : i < j}) = k - 1
  IN [k \in 1..Cardinality(starts) |-> SubSeq(runs, Nth(k), Nth(k + 1) - 1)]

SplitFileSections(runs) == SectionsAt(runs, {1} \cup SplitPoints(runs))

\* !section.trim()
IsBlank(section) == \A j \in 1..Len(section) : IsSpace(section[j].c)

\* The line feeds of the first j runs of the text.
LineFeeds(runs, j) ==
  RunsLength(SelectSeq(SubSeq(runs, 1, j), LAMBDA r : r.c = "\n"))

\* section.split('\n').slice(0, k).join('\n'): the text before its k-th line
\* feed, the whole text when it has fewer.
HeaderLines(runs, k) ==
  LET reached == {j \in 1..Len(runs) : LineFeeds(runs, j) >= k} IN
  IF reached = {} THEN runs
  ELSE LET j == CHOOSE i \in reached : \A h \in reached : i <= h IN
       RunsAppend(SubSeq(runs, 1, j - 1), "\n", k - 1 - LineFeeds(runs, j - 1))

LargeFileNotice ==
  Runs(<<"\n", "@", "@", " ", ".", ".", ".", " ", "@", "@", "\n", ".", ".", ".", " ", "(",
    "l", "a", "r", "g", "e", " ", "b", "u", "n", "d", "l", "e", "d", "/", "c", "o", "m",
    "p", "i", "l", "e", "d", " ", "f", "i", "l", "e", " ", "d", "i", "f", "f", " ", "t",
    "r", "u", "n", "c", "a", "t", "e", "d", ")", " ", ".", ".", ".", "\n">>)

FileTruncatedNotice == Runs(<<"\n", ".", ".", ".", " ", "(", "d", "i", "f", "f", " ", "t", "r", "u", "n", "c",
    "a", "t", "e", "d", ")", " ", ".", ".", ".", "\n">>)

RemainingTruncatedNotice ==
  Runs(<<"\n", ".", ".", ".", " ", "(", "r", "e", "m", "a", "i", "n", "i", "n", "g", " ",
    "d", "i", "f", "f", "s", " ", "t", "r", "u", "n", "c", "a", "t", "e", "d", ")", " ",
    ".", ".", ".", "\n">>)

\* Lines 219-243: the section as it is pushed.
ProcessSection(section) ==
  IF IsLargeFile(section) THEN RunsConcat(HeaderLines(section, 4), LargeFileNotice)
  ELSE IF RunsLength(section) > MAX_FILE_DIFF_SIZE
  THEN RunsConcat(RunsSlice(section, MAX_FILE_DIFF_SIZE), FileTruncatedNotice)
  ELSE section

\* The loop without its stop: every section is pushed.
RECURSIVE ProcessEverySection(_, _)
ProcessEverySection(fileSections, totalSize) ==
  IF fileSections = <<>> THEN <<>>
  ELSE IF IsBlank(Head(fileSections)) THEN ProcessEverySection(Tail(fileSections), totalSize)
  ELSE <<ProcessSection(Head(fileSections))>> \o ProcessEverySection(Tail(fileSections), totalSize)

\* The loop of lines 216-249 from the given sections on: the list of the
\* texts pushed.  0.9 * 50000 is 45000 exactly in floating point.
RECURSIVE ProcessSections(_, _)
ProcessSections(fileSections, totalSize) ==
  IF fileSections = <<>> THEN <<>>
  ELSE IF IsBlank(Head(fileSections)) THEN ProcessSections(Tail(fileSections), totalSize)
  ELSE LET pushed == ProcessSection(Head(fileSections))
           size == totalSize + RunsLength(pushed)
       IN IF size * 10 > MAX_TOTAL_DIFF_SIZE * 9
          THEN <<pushed, RemainingTruncatedNotice>>
          ELSE <<pushed>> \o ProcessSections(Tail(fileSections), size)

\* processedSections.join('')
RECURSIVE JoinSections(_)
JoinSections(sections) ==
  IF sections = <<>> THEN <<>>
  ELSE RunsConcat(Head(sections), JoinSections(Tail(sections)))

\* processDiffContent(diffContent: string): string, on encoded texts.
processDiffContent(diffContent) ==
  IF RunsLength(diffContent) <= MAX_TOTAL_DIFF_SIZE THEN diffContent
  ELSE JoinSections(ProcessSections(SplitFileSections(diffContent), 0))

\* --------------------------------------------- issue.ts: the fetch machine
\* fetchIssueData with the insertion left to the code after the await: the
\* check alone happens at entry.
fetchIssueDataEnterUnmarked(processedIssues, issueNumber) ==
  [proceed |-> issueNumber \notin processedIssues, visited |-> processedIssues]

\* Lines 36-39 of fetchIssueData: the membership check and the insertion,
\* which no await separates.  proceed = FALSE is the early return.
fetchIssueDataEnter(processedIssues, issueNumber) ==
  [proceed |-> issueNumber \notin processedIssues,
   visited |-> processedIssues \cup {issueNumber}]

\* A call of fetchIssueData that takes every item for the primary subject.
NewTaskAsPrimary(issueNumber, isReferenced) ==
  [num |-> issueNumber, isReferenced |-> FALSE, pc |-> "getIssue",
   refs |-> <<>>, commentsWithDate |-> <<>>, children |-> <<>>,
   node |-> [author |-> <<>>, title |-> 0, description |-> <<>>, comments |-> <<>>,
             code_changes |-> None, referenced_issues |-> <<>>],
   result |-> None]

\* A call of fetchIssueData that passed line 39 and awaits getIssue (line 43).
NewTask(issueNumber, isReferenced) ==
  [num |-> issueNumber, isReferenced |-> isReferenced, pc |-> "getIssue",
   refs |-> <<>>, commentsWithDate |-> <<>>, children |-> <<>>,
   node |-> [author |-> <<>>, title |-> 0, description |-> <<>>, comments |-> <<>>,
             code_changes |-> None, referenced_issues |-> <<>>],
   result |-> None]

\* Line 183: referencedNumbers.map(num => fetchIssueData(num, ...)).  Each call
\* runs to its first await before the next one starts.  children has one
\* entry per referenced number: the id of the task started for it, or 0 when
\* the call returned undefined at once; started lists the numbers fetched.
RECURSIVE DispatchAll(_, _, _, _, _)
DispatchAll(refs, processedIssues, nextId, children, started) ==
  IF refs = <<>>
  THEN [visited |-> processedIssues, children |-> children, started |-> started]
  ELSE LET e == fetchIssueDataEnter(processedIssues, Head(refs)) IN
       IF e.proceed
       THEN DispatchAll(Tail(refs), e.visited, nextId + 1,
                        Append(children, nextId), Append(started, Head(refs)))
       ELSE DispatchAll(Tail(refs), e.visited, nextId, Append(children, 0), started)

\* One more getIssue call for issue n.
CountCall(calls, n) ==
  IF n \in DOMAIN calls THEN [calls EXCEPT ![n] = @ + 1] ELSE calls @@ (n :> 1)

RECURSIVE CountCalls(_, _)
CountCalls(calls, started) ==
  IF started = <<>> THEN calls ELSE CountCalls(CountCall(calls, Head(started)), Tail(started))

\* Lines 186-188: referenced_issues is assigned only when a node came back.
AttachReferenced(node, referencedIssues) ==
  IF referencedIssues = <<>> THEN node
  ELSE [node EXCEPT !.referenced_issues = referencedIssues]

\* Lines 80-85: sort and strip the comments, return the node.  comments is
\* one of FinalCommentsOutcomes(task.commentsWithDate).
FinishTask(task, comments) ==
  LET node == [task.node EXCEPT !.comments = comments] IN
  [task EXCEPT !.pc = "done", !.node = node, !.result = Some(node)]

\* The results of the calls of line 183, in the order of the numbers.
ChildResults(ts, children) ==
  [i \in 1..Len(children) |-> IF children[i] = 0 THEN None ELSE ts[children[i]].result]

\* The results without line 184's filter: an undefined result stays in the
\* list, as a node without a title.
UnfilteredNodes(results) ==
  [i \in 1..Len(results) |->
     IF results[i] = None THEN [title |-> 0, referenced_issues |-> <<>>]
     ELSE results[i][1]]

\* Line 184's filter: the nodes among the results, order kept.
RECURSIVE DefinedNodes(_)
DefinedNodes(results) ==
  IF results = <<>> THEN <<>>
  ELSE IF Head(results) = None THEN DefinedNodes(Tail(results))
  ELSE <<Head(results)[1]>> \o DefinedNodes(Tail(results))

\* Lines 184-188 and 80-85 for task t once every call of line 183 has
\* returned: the nodes are attached and the node of t is returned.
SettleReferenced(ts, t, comments) ==
  LET referencedIssues == DefinedNodes(ChildResults(ts, ts[t].children)) IN
  FinishTask([ts[t] EXCEPT !.node = AttachReferenced(@, referencedIssues)], comments)

\* Lines 75-77 and 183, from a task whose own data is gathered.  Without a
\* reference lines 80-85 follow at once.  With references the fetches are
\* started and the task awaits Promise.all (line 184), also when every call
\* returned at once (line 37): lines 184-188 and 80-85 run in a later turn
\* (ReferencedIssuesSettled).  st is [tasks, visited, apiCalls].
StartReferenced(st, t, comments) ==
  LET task == st.tasks[t]
      d == DispatchAll(task.refs, st.visited, Len(st.tasks) + 1, <<>>, <<>>)
  IN IF task.refs = <<>> THEN [st EXCEPT !.tasks[t] = FinishTask(task, comments)]
     ELSE [tasks |-> [st.tasks EXCEPT ![t] = [task EXCEPT !.pc = "children",
                                                          !.children = d.children]]
                     \o [i \in 1..Len(d.started) |-> NewTask(d.started[i], TRUE)],
           visited |-> d.visited,
           apiCalls |-> CountCalls(st.apiCalls, d.started)]

IssueState == [tasks |-> tasks, visited |-> visited, apiCalls |-> apiCalls]

SetIssueState(st) ==
  /\ tasks' = st.tasks
  /\ visited' = st.visited
  /\ apiCalls' = st.apiCalls

\* ------------------------------------------- text.ts: removeRegexPattern
\* new RegExp(pattern, 'g') for the patterns made of literal characters, the
\* dot, the star and character classes without range, negation or escape.
\* A compiled pattern is a sequence of atoms: an atom matches one character
\* (any but a line terminator, or one of `chars`) and may be starred.
AtomOf(any, chars) == [any |-> any, chars |-> chars, star |-> FALSE]

\* The position of the first "]" after position i of the pattern, 0 if none.
ClassEnd(pattern, i) ==
  IF \E j \in (i + 1)..Len(pattern) : pattern[j] = "]"
  THEN CHOOSE j \in (i + 1)..Len(pattern) :
         pattern[j] = "]" /\ \A k \in (i + 1)..(j - 1) : pattern[k] /= "]"
  ELSE 0

\* The parse of the pattern from position i on, with the atoms read so far:
\* ok = FALSE is the SyntaxError of a star with nothing to repeat and of a
\* class that is not closed.  A "]" outside a class is a literal.
RECURSIVE ParsePattern(_, _, _)
ParsePattern(pattern, i, atoms) ==
  IF i > Len(pattern) THEN [ok |-> TRUE, atoms |-> atoms]
  ELSE LET c == pattern[i] IN
       IF c = "*"
       THEN IF atoms = <<>> \/ atoms[Len(atoms)].star
            THEN [ok |-> FALSE, atoms |-> <<>>]
            ELSE ParsePattern(pattern, i + 1, [atoms EXCEPT ![Len(atoms)].star = TRUE])
       ELSE IF c = "["
       THEN LET j == ClassEnd(pattern, i) IN
            IF j = 0 THEN [ok |-> FALSE, atoms |-> <<>>]
            ELSE ParsePattern(pattern, j + 1,
                   Append(atoms, AtomOf(FALSE, {pattern[k] : k \in (i + 1)..(j - 1)})))
       ELSE IF c = "."
       THEN ParsePattern(pattern, i + 1, Append(atoms, AtomOf(TRUE, {})))
       ELSE ParsePattern(pattern, i + 1, Append(atoms, AtomOf(FALSE, {c})))

NewRegExp(pattern) == ParsePattern(pattern, 1, <<>>)

AtomMatches(atom, c) == IF atom.any THEN ~IsLineTerminator(c) ELSE c \in atom.chars

\* The number of characters from position i on that the atom matches in a row.
RECURSIVE RunOfAtom(_, _, _)
RunOfAtom(atom, text, i) ==
  IF i <= Len(text) /\ AtomMatches(atom, text[i]) THEN 1 + RunOfAtom(atom, text, i + 1) ELSE 0

\* The backtracking match of the atoms from k on at position i: the position
\* after the match, 0 when there is none.  A starred atom is greedy: it takes
\* n characters, then one fewer when the rest does not match.
RECURSIVE MatchFrom(_, _, _, _)
RECURSIVE MatchStar(_, _, _, _, _)
MatchFrom(atoms, k, text, i) ==
  IF k > Len(atoms) THEN i
  ELSE IF atoms[k].star THEN MatchStar(atoms, k, text, i, RunOfAtom(atoms[k], text, i))
  ELSE IF i <= Len(text) /\ AtomMatches(atoms[k], text[i]) THEN MatchFrom(atoms, k + 1, text, i + 1)
  ELSE 0

MatchStar(atoms, k, text, i, n) ==
  LET end == MatchFrom(atoms, k + 1, text, i + n) IN
  IF end /= 0 THEN end
  ELSE IF n = 0 THEN 0
  ELSE MatchStar(atoms, k, text, i, n - 1)

\* text.replace(regex, '') of a global regex from lastIndex i - 1 on: a match
\* is left out and the search goes on at its end; after an empty match, and
\* where nothing matches, the character stays and the search moves by one.
RECURSIVE ReplaceAllFrom(_, _, _)
ReplaceAllFrom(atoms, text, i) ==
  IF i > Len(text) THEN <<>>
  ELSE LET end == MatchFrom(atoms, 1, text, i) IN
       IF end > i THEN ReplaceAllFrom(atoms, text, end)
       ELSE <<text[i]>> \o ReplaceAllFrom(atoms, text, i + 1)

\* A removal that leaves every text as it is.
KeepText(text, pattern) == text

\* removeRegexPattern(text: string, pattern: string): string
removeRegexPattern(text, pattern) ==
  IF pattern = <<>> THEN text
  ELSE LET regex == NewRegExp(pattern) IN
       IF regex.ok THEN ReplaceAllFrom(regex.atoms, text, 1) ELSE text

\* stripHtmlComments: markdownContent.replace(/<!--[\s\S]*?-->/g, '').  A
\* comment runs from "<!--" to the first "-->" that begins after it; an
\* opening without such an end stays, and so does all that follows it.
RECURSIVE stripHtmlComments(_)
stripHtmlComments(markdownContent) ==
  LET open == IndexOf(markdownContent, <<"<", "!", "-", "-">>)
      close == IF open < 0 THEN 0 - 1
               ELSE IndexOfFrom(markdownContent, <<"-", "-", ">">>, open + 4)
  IN IF close < 0 THEN markdownContent
     ELSE SubSeq(markdownContent, 1, open)
          \o stripHtmlComments(SubSeq(markdownContent, close + 4, Len(markdownContent)))

HEADING_OF_GEN_PR_METADATA ==
  <<"#", "#", " ", "g", "e", "n", "-", "p", "r", " ", "M", "e", "t", "a", "d", "a", "t", "a">>

\* stripMetadataSections: the text before the heading of the metadata.
stripMetadataSections(markdownContent) ==
  LET index == IndexOf(markdownContent, HEADING_OF_GEN_PR_METADATA) IN
  IF index >= 0 THEN SubSeq(markdownContent, 1, index) ELSE markdownContent

\* Lines 53-54: the body without its HTML comments and, for a pull request
\* (issue.url holds '/pull/'), without its metadata section.
ProcessedBody(issue) ==
  LET rawBody == stripHtmlComments(issue.body) IN
  IF issue.isPR THEN stripMetadataSections(rawBody) ELSE rawBody

\* Lines 49-67 after getIssue answered: references (of the body as the host
\* gave it), description, comments.
GatherIssue(task, issue) ==
  [task EXCEPT
     !.refs = extractIssueReferences(AllText(issue)),
     !.commentsWithDate = [i \in 1..Len(issue.comments) |-> PlainComment(issue.comments[i])],
     !.node = [author |-> issue.author, title |-> issue.title,
               description |->
                 normalizeNewLines(
                   removeRegexPattern(ProcessedBody(issue), OrEmpty(options.removePattern))),
               comments |-> <<>>,
               code_changes |-> None, referenced_issues |-> <<>>]]

\* main line 415 calls createIssueInfo: lines 12-13 and 36-43 for the primary.
CreateIssueInfoCall ==
  /\ pc = "createIssueInfo"
  /\ LET e == fetchIssueDataEnter({}, options.issueNumber) IN
     /\ visited' = e.visited
     /\ tasks' = <<NewTask(options.issueNumber, FALSE)>>
     /\ apiCalls' = CountCall(apiCalls, options.issueNumber)
  /\ pc' = "issueWait"
  /\ effects' = Append(effects, Ev("createIssueInfo", options.issueNumber))
  /\ UNCHANGED <<envVars, callVars, issueInfo, planVars, test, main, host>>

\* getIssue fails for task t: lines 44-47.
GetIssueFail(t) ==
  /\ pc = "issueWait"
  /\ tasks[t].pc = "getIssue"
  /\ ~IssueAvailable(tasks[t].num)
  /\ tasks' = [tasks EXCEPT ![t].pc = "done", ![t].result = None]
  /\ UNCHANGED <<envVars, callVars, pc, effects, apiCalls, visited, issueInfo, planVars, test, main, host>>

\* getIssue answers for task t: lines 49-77 up to the next await.
GetIssueExit(t) ==
  /\ pc = "issueWait"
  /\ tasks[t].pc = "getIssue"
  /\ IssueAvailable(tasks[t].num)
  /\ LET issue == issues[tasks[t].num]
         task == GatherIssue(tasks[t], issue)
     IN IF issue.isPR /\ ~task.isReferenced
        THEN /\ tasks' = [tasks EXCEPT ![t] = [task EXCEPT !.pc = "diff"]]
             /\ UNCHANGED <<visited, apiCalls>>
        ELSE \E comments \in FinalCommentsOutcomes(task.commentsWithDate) :
               SetIssueState(StartReferenced([IssueState EXCEPT !.tasks[t] = task], t, comments))
  /\ UNCHANGED <<envVars, callVars, pc, effects, issueInfo, planVars, test, main, host>>

\* fetchPRDiff (lines 20-28) once getPullRequestDiff settled: prDiff is None
\* when the request failed, which is caught and leaves the node as it is.
fetchPRDiff(prDiff, issueInfoNode) ==
  IF prDiff = None \/ Trim(prDiff[1]) = <<>> THEN issueInfoNode
  ELSE [issueInfoNode EXCEPT
          !.code_changes = Some(Characters(processDiffContent(Runs(Trim(prDiff[1])))))]

\* getPullRequestDiff settles (fetchPRDiff, lines 20-28): it fails when the
\* host has no diff for the item.  fetchPRReviewThreads is awaited next.
PRDiffExit(t) ==
  /\ pc = "issueWait"
  /\ tasks[t].pc = "diff"
  /\ tasks' = [tasks EXCEPT
       ![t].pc = "threads",
       ![t].node = fetchPRDiff(issues[tasks[t].num].diff, @)]
  /\ effects' = Append(effects, Ev("getPullRequestDiff", tasks[t].num))
  /\ UNCHANGED <<envVars, callVars, pc, apiCalls, visited, issueInfo, planVars, test, main, host>>

\* diffHunk.split('\n')
RECURSIVE SplitLines(_)
SplitLines(s) ==
  IF \A k \in 1..Len(s) : s[k] /= "\n" THEN <<s>>
  ELSE LET i == CHOOSE k \in 1..Len(s) : s[k] = "\n" /\ \A j \in 1..(k - 1) : s[j] /= "\n"
       IN <<SubSeq(s, 1, i - 1)>> \o SplitLines(SubSeq(s, i + 1, Len(s)))

\* lines.find(...) of line 141: the first line that starts with + or -
\* (such a line does not start with @@) and is longer than one character
\* when trimmed; None when there is none.
RECURSIVE FindCodeLine(_)
FindCodeLine(lines) ==
  IF lines = <<>> THEN None
  ELSE LET line == Head(lines) IN
       IF line /= <<>> /\ line[1] \in {"+", "-"} /\ Len(Trim(line)) > 1
       THEN Some(line)
       ELSE FindCodeLine(Tail(lines))

\* extractCodeFromDiffHunk(diffHunk: string | undefined): string
extractCodeFromDiffHunk(diffHunk) ==
  IF diffHunk = None \/ diffHunk = Some(<<>>) THEN <<>>
  ELSE LET codeLine == FindCodeLine(SplitLines(diffHunk[1])) IN
       IF codeLine = None THEN <<>> ELSE Trim(codeLine[1])

\* `${line}` for a line number.
RECURSIVE NumberToString(_)
NumberToString(n) ==
  IF n < 10 THEN <<DigitChar(n)>> ELSE NumberToString(n \div 10) \o <<DigitChar(n % 10)>>

\* Lines 117-123: the comment of a review thread in the shape of the merge.
\* A property that is undefined is deleted (lines 126-130): None.
ReviewThreadComment(comment) ==
  LET codeContent == extractCodeFromDiffHunk(comment.diffHunk) IN
  [author |-> comment.author[1],
   codeLocation |->
     IF /\ comment.path /= None /\ comment.path[1] /= <<>>
        /\ comment.line /= None /\ comment.line[1] /= 0
     THEN Some(comment.path[1] \o <<":">> \o NumberToString(comment.line[1]))
     ELSE None,
   codeContent |-> IF codeContent = <<>> THEN None ELSE Some(codeContent),
   body |-> normalizeNewLines(comment.body),
   createdAt |-> GetTime(comment.createdAt),
   reviewState |-> None]

\* processReviewThreadComments (lines 103-135): a comment without author or
\* without body is skipped, the others are pushed.
RECURSIVE processReviewThreadComments(_, _)
processReviewThreadComments(comments, commentsWithDate) ==
  IF comments = <<>> THEN commentsWithDate
  ELSE LET comment == Head(comments) IN
       processReviewThreadComments(Tail(comments),
         IF comment.author = None \/ comment.body = <<>> THEN commentsWithDate
         ELSE Append(commentsWithDate, ReviewThreadComment(comment)))

\* Lines 93-97: the loop over the threads; a resolved thread is passed over.
RECURSIVE ProcessReviewThreads(_, _)
ProcessReviewThreads(reviewThreads, commentsWithDate) ==
  IF reviewThreads = <<>> THEN commentsWithDate
  ELSE LET thread == Head(reviewThreads) IN
       ProcessReviewThreads(Tail(reviewThreads),
         IF ~thread.isResolved
         THEN processReviewThreadComments(thread.comments, commentsWithDate)
         ELSE commentsWithDate)

\* fetchPRReviewThreads (lines 88-101) once getPullRequestReviewThreads
\* settled: graphqlData is None when the request failed, which is caught.
fetchPRReviewThreads(graphqlData, commentsWithDate) ==
  IF graphqlData = None THEN commentsWithDate
  ELSE ProcessReviewThreads(graphqlData[1], commentsWithDate)

\* getPullRequestReviewThreads settles (fetchPRReviewThreads, lines 88-101)
\* with the threads, or fails (None), which leaves the comments as they are;
\* fetchPRReviews is next.
PRReviewThreadsExit(t) ==
  /\ pc = "issueWait"
  /\ tasks[t].pc = "threads"
  /\ tasks' = [tasks EXCEPT
       ![t].pc = "reviews",
       ![t].commentsWithDate = fetchPRReviewThreads(issues[tasks[t].num].reviewThreads, @)]
  /\ effects' = Append(effects, Ev("getPullRequestReviewThreads", tasks[t].num))
  /\ UNCHANGED <<envVars, callVars, pc, apiCalls, visited, issueInfo, planVars, test, main, host>>

\* Lines 150-155: a review in the shape of the merge.
ReviewComment(review) ==
  [author |-> review.user, reviewState |-> Some(review.state),
   body |-> normalizeNewLines(review.body), createdAt |-> GetTime(review.submitted_at),
   codeLocation |-> None, codeContent |-> None]

\* fetchPRReviews that loses the comments gathered so far when the request
\* fails.
fetchPRReviewsOrNothing(reviews, commentsWithDate) ==
  IF reviews = None THEN <<>>
  ELSE commentsWithDate \o [i \in 1..Len(reviews[1]) |-> ReviewComment(reviews[1][i])]

\* fetchPRReviews (lines 147-160) once getPullRequestReviews settled:
\* reviews is None when the request failed, which is caught.
fetchPRReviews(reviews, commentsWithDate) ==
  IF reviews = None THEN commentsWithDate
  ELSE commentsWithDate \o [i \in 1..Len(reviews[1]) |-> ReviewComment(reviews[1][i])]

\* getPullRequestReviews settles (lines 147-160) with the verdicts, or fails;
\* lines 75-77 follow.
PRReviewsExit(t) ==
  /\ pc = "issueWait"
  /\ tasks[t].pc = "reviews"
  /\ LET task == [tasks[t] EXCEPT
                    !.commentsWithDate = fetchPRReviews(issues[tasks[t].num].reviews, @)]
     IN \E comments \in FinalCommentsOutcomes(task.commentsWithDate) :
          SetIssueState(StartReferenced([IssueState EXCEPT !.tasks[t] = task], t, comments))
  /\ effects' = Append(effects, Ev("getPullRequestReviews", tasks[t].num))
  /\ UNCHANGED <<envVars, callVars, pc, issueInfo, planVars, test, main, host>>

\* Promise.all of line 184 settles for task t: lines 184-188 and 80-85.
ReferencedIssuesSettled(t) ==
  /\ pc = "issueWait"
  /\ tasks[t].pc = "children"
  /\ \A i \in 1..Len(tasks[t].children) :
       tasks[t].children[i] /= 0 => tasks[tasks[t].children[i]].pc = "done"
  /\ \E comments \in FinalCommentsOutcomes(tasks[t].commentsWithDate) :
       tasks' = [tasks EXCEPT ![t] = SettleReferenced(tasks, t, comments)]
  /\ UNCHANGED <<envVars, callVars, pc, effects, apiCalls, visited, issueInfo, planVars, test, main, host>>

\* createIssueInfo without the test of line 14: main goes on without the
\* primary subject.
CreateIssueInfoReturnUnchecked ==
  /\ pc = "issueWait"
  /\ tasks[1].pc = "done"
  /\ pc' = "planCodeChanges"
  /\ issueInfo' = tasks[1].result
  /\ UNCHANGED <<envVars, callVars, effects, apiCalls, visited, tasks, planVars, test, main, host>>

\* fetchIssueData of the primary returned: lines 14-17, then main line 416.
CreateIssueInfoReturn ==
  /\ pc = "issueWait"
  /\ tasks[1].pc = "done"
  /\ IF tasks[1].result = None
     THEN /\ pc' = "failed"
          /\ issueInfo' = None
     ELSE /\ pc' = "planCodeChanges"
          /\ issueInfo' = tasks[1].result
  /\ UNCHANGED <<envVars, callVars, effects, apiCalls, visited, tasks, planVars, test, main, host>>

\* ------------------------------------------ markdown.ts: header extraction
\* extractHeaderContents without the test of the order of the indices.
extractHeaderContentsUnordered(text, headers) ==
  LET modifiedResponse == <<"\n">> \o text
      indices == [i \in 1..Len(headers) |->
                    IndexOf(modifiedResponse, <<"\n">> \o headers[i])]
  IN IF \E i \in 1..Len(headers) : indices[i] = 0 - 1
     THEN None
     ELSE Some([i \in 1..Len(headers) |->
                  LET start == indices[i] + 1 + Len(headers[i])
                      end == IF i + 1 <= Len(headers) THEN indices[i + 1] + 1
                             ELSE Len(modifiedResponse)
                  IN Trim(Slice(modifiedResponse, start, end))])

\* extractHeaderContents without the trim() of the contents.
extractHeaderContentsUntrimmed(text, headers) ==
  LET modifiedResponse == <<"\n">> \o text
      indices == [i \in 1..Len(headers) |->
                    IndexOf(modifiedResponse, <<"\n">> \o headers[i])]
  IN IF \/ \E i \in 1..Len(headers) : indices[i] = 0 - 1
        \/ ~(\A i \in 1..Len(headers) : i = 1 \/ indices[i] > indices[i - 1])
     THEN None
     ELSE Some([i \in 1..Len(headers) |->
                  LET start == indices[i] + 1 + Len(headers[i])
                      end == IF i + 1 <= Len(headers) THEN indices[i + 1] + 1
                             ELSE Len(modifiedResponse)
                  IN Slice(modifiedResponse, start, end)])

\* extractHeaderContents(text, headers): string[] | undefined
extractHeaderContents(text, headers) ==
  LET modifiedResponse == <<"\n">> \o text
      indices == [i \in 1..Len(headers) |->
                    IndexOf(modifiedResponse, <<"\n">> \o headers[i])]
  IN IF \/ \E i \in 1..Len(headers) : indices[i] = 0 - 1
        \/ ~(\A i \in 1..Len(headers) : i = 1 \/ indices[i] > indices[i - 1])
     THEN None
     ELSE Some([i \in 1..Len(headers) |->
                  LET start == indices[i] + 1 + Len(headers[i])
                      end == IF i + 1 <= Len(headers) THEN indices[i + 1] + 1
                             ELSE Len(modifiedResponse)
                  IN Trim(Slice(modifiedResponse, start, end))])

\* The length of the run of the character c that starts s.
RECURSIVE LeadingRun(_, _)
LeadingRun(s, c) == IF s /= <<>> /\ Head(s) = c THEN 1 + LeadingRun(Tail(s), c) ELSE 0

\* The length of the run of the character c that ends s.
RECURSIVE TrailingRun(_, _)
TrailingRun(s, c) ==
  IF s /= <<>> /\ s[Len(s)] = c THEN 1 + TrailingRun(SubSeq(s, 1, Len(s) - 1), c) ELSE 0

\* content.match(new RegExp(`${fenceChar}{3,}`, 'g')): the lengths of the
\* matches from the 0-based position i on. The quantifier is greedy, so a
\* match is a whole run of at least three fence characters and the search
\* resumes behind it; a shorter run is stepped over.
RECURSIVE FenceMatches(_, _, _)
FenceMatches(content, fenceChar, i) ==
  IF i >= Len(content) THEN <<>>
  ELSE LET run == LeadingRun(SubSeq(content, i + 1, Len(content)), fenceChar)
       IN IF run >= 3
          THEN <<run>> \o FenceMatches(content, fenceChar, i + run)
          ELSE FenceMatches(content, fenceChar, i + 1)

\* Math.max(...lengths) of a non-empty list.
RECURSIVE MathMax(_)
MathMax(lengths) ==
  IF Len(lengths) = 1 THEN lengths[1]
  ELSE LET m == MathMax(Tail(lengths))
       IN IF lengths[1] > m THEN lengths[1] ELSE m

\* fenceChar.repeat(n)
Repeat(fenceChar, n) == [i \in 1..n |-> fenceChar]

\* findDistinctFence that always answers the shortest fence.
findDistinctFenceShortest(content, fenceChar) == Repeat(fenceChar, 3)

\* findDistinctFence(content, fenceChar): string
findDistinctFence(content, fenceChar) ==
  LET matches == FenceMatches(content, fenceChar, 0)
      maxLength == IF matches /= <<>> THEN MathMax(matches) ELSE 0
      fenceLength == IF 3 > maxLength + 1 THEN 3 ELSE maxLength + 1
  IN Repeat(fenceChar, fenceLength)

\* trimCodeBlockFences: content.trim().replace(
\*   /^(`{3,}|~{3,})[\s\S]*?\n([\s\S]*?)\n\1\s*$/, '$2').
\* On the trimmed text t the pattern matches iff t ends with a line feed and
\* a run of k >= 3 fence characters, t starts with at least k of the same
\* character, and a line feed stands between the first k characters and the
\* closing line feed; $2 is the text between the first such line feed and
\* the closing one.
trimCodeBlockFences(content) ==
  LET t == Trim(content)
      c == IF t = <<>> THEN " " ELSE t[1]
      k == TrailingRun(t, c)
      q == Len(t) - k - 1                          \* 0-based, the closing "\n"
      p == IF k <= Len(t) THEN IndexOfFrom(t, <<"\n">>, k) ELSE 0 - 1
  IN IF /\ c \in {Backtick, "~"}
        /\ k >= 3
        /\ q >= 0
        /\ t[q + 1] = "\n"
        /\ LeadingRun(t, c) >= k
        /\ p >= 0
        /\ p < q
     THEN Slice(t, p + 1, q)
     ELSE t

\* -------------------------------------------------- plan.ts: the file lists
\* \w of a regular expression.
IsWord(c) == c \in {"a", "b", "c", "d", "e", "f", "g", "h", "i", "j", "k", "l", "m", "n", "o", "p", "q", "r", "s", "t", "u", "v", "w", "x", "y", "z", "A", "B", "C", "D", "E", "F", "G", "H", "I", "J", "K", "L", "M", "N", "O", "P", "Q", "R", "S", "T", "U", "V", "W", "X", "Y", "Z", "0", "1", "2", "3", "4", "5", "6", "7", "8", "9", "_"}

\* The end (exclusive, 1-based) of the run of [^`\n] that starts at i.
RECURSIVE PathEnd(_, _)
PathEnd(s, i) ==
  IF i <= Len(s) /\ s[i] /= Backtick /\ s[i] /= "\n" THEN PathEnd(s, i + 1) ELSE i

\* The end (exclusive, 1-based) of the run of \s that starts at i.
RECURSIVE SpacesEnd(_, _)
SpacesEnd(s, i) == IF i <= Len(s) /\ IsSpace(s[i]) THEN SpacesEnd(s, i + 1) ELSE i

\* /\B-\s*`?([^`\n]+)`?/ tried at the "-" at i with \s* taking w characters,
\* w from the longest run downwards, the backtick taken before it is given
\* up: <<captureStart, captureEnd, matchEnd>> (1-based, ends exclusive), or
\* <<>> when no w matches.
RECURSIVE PathMatchWith(_, _, _)
PathMatchWith(s, i, w) ==
  IF w < 0 THEN <<>>
  ELSE LET j == i + 1 + w IN
       IF j <= Len(s) /\ s[j] = Backtick /\ PathEnd(s, j + 1) > j + 1
       THEN LET e == PathEnd(s, j + 1) IN
            <<j + 1, e, IF e <= Len(s) /\ s[e] = Backtick THEN e + 1 ELSE e>>
       ELSE IF PathEnd(s, j) > j
       THEN LET e == PathEnd(s, j) IN
            <<j, e, IF e <= Len(s) /\ s[e] = Backtick THEN e + 1 ELSE e>>
       ELSE PathMatchWith(s, i, w - 1)

PathMatchAt(s, i) ==
  IF s[i] = "-" /\ (i = 1 \/ ~IsWord(s[i - 1]))
  THEN PathMatchWith(s, i, SpacesEnd(s, i + 1) - (i + 1))
  ELSE <<>>

\* [...filesContent.matchAll(filePathRegex)].map(match => match[1].trim())
RECURSIVE FilePathsFrom(_, _)
FilePathsFrom(s, i) ==
  IF i > Len(s) THEN <<>>
  ELSE LET m == PathMatchAt(s, i) IN
       IF m = <<>> THEN FilePathsFrom(s, i + 1)
       ELSE <<Trim(SubSeq(s, m[1], m[2] - 1))>> \o FilePathsFrom(s, m[3])

ParseFilePaths(filesContent) == FilePathsFrom(filesContent, 1)

\* ------------------------------------------------ plan.ts: planCodeChanges
HEADING_OF_FILE_PATHS_TO_BE_MODIFIED ==
  <<"#", " ", "F", "i", "l", "e", " ", "P", "a", "t", "h", "s", " ", "t", "o", " ",
    "b", "e", " ", "M", "o", "d", "i", "f", "i", "e", "d">>
HEADING_OF_FILE_PATHS_TO_BE_REFERRED ==
  <<"#", " ", "F", "i", "l", "e", " ", "P", "a", "t", "h", "s", " ", "t", "o", " ",
    "b", "e", " ", "R", "e", "f", "e", "r", "r", "e", "d">>
HEADING_OF_PLAN ==
  <<"#", " ", "I", "m", "p", "l", "e", "m", "e", "n", "t", "a", "t", "i", "o", "n", " ",
    "P", "l", "a", "n", "s">>
HEADING_OF_COMMIT_MESSAGE ==
  <<"#", " ", "C", "o", "m", "m", "i", "t", " ", "M", "e", "s", "s", "a", "g", "e">>

\* The headers the three prompts ask for, in the order of their templates
\* (buildPromptForSelectingFiles, buildPromptForPlanningCodeChanges,
\* buildPromptForSelectingFilesAndPlanningCodeChanges).
PromptForSelectingFiles ==
  <<HEADING_OF_FILE_PATHS_TO_BE_MODIFIED, HEADING_OF_FILE_PATHS_TO_BE_REFERRED>>
PromptForPlanningCodeChanges == <<HEADING_OF_PLAN, HEADING_OF_COMMIT_MESSAGE>>
PromptForSelectingFilesAndPlanningCodeChanges ==
  <<HEADING_OF_PLAN, HEADING_OF_FILE_PATHS_TO_BE_MODIFIED, HEADING_OF_COMMIT_MESSAGE>>

\* The headers planCodeChanges extracts, in the order it passes them to
\* extractHeaderContents (lines 90-93, 132-135, 159-163).
HeadersOfFileLists ==
  <<HEADING_OF_FILE_PATHS_TO_BE_MODIFIED, HEADING_OF_FILE_PATHS_TO_BE_REFERRED>>
HeadersOfPlan == <<HEADING_OF_COMMIT_MESSAGE, HEADING_OF_PLAN>>
HeadersOfSingleStage ==
  <<HEADING_OF_COMMIT_MESSAGE, HEADING_OF_PLAN, HEADING_OF_FILE_PATHS_TO_BE_MODIFIED>>

\* A ResolutionPlan.
ResolutionPlan(planText, commitMessage, filePaths) ==
  [plan |-> planText, commitMessage |-> commitMessage, filePaths |-> filePaths]

\* The two file lists taken for each other.
ParseFileListsSwapped(filesResponse) ==
  LET extractedFilePathLists ==
        extractHeaderContents(trimCodeBlockFences(filesResponse), HeadersOfFileLists)
  IN IF extractedFilePathLists = None THEN None
     ELSE Some([filePathsToBeModified |-> ParseFilePaths(extractedFilePathLists[1][2]),
                filePathsToBeReferred |-> ParseFilePaths(extractedFilePathLists[1][1])])

\* Lines 90-101: the two file lists of the first response of two-stage
\* planning, undefined when the extraction fails.
ParseFileLists(filesResponse) ==
  LET extractedFilePathLists ==
        extractHeaderContents(trimCodeBlockFences(filesResponse), HeadersOfFileLists)
  IN IF extractedFilePathLists = None THEN None
     ELSE Some([filePathsToBeModified |-> ParseFilePaths(extractedFilePathLists[1][1]),
                filePathsToBeReferred |-> ParseFilePaths(extractedFilePathLists[1][2])])

\* Lines 132-140: the plan of two-stage planning from the second response.
ParsePlanResponse(planResponse, filePathsToBeModified) ==
  LET extractedContents ==
        extractHeaderContents(trimCodeBlockFences(planResponse), HeadersOfPlan)
  IN IF extractedContents = None
     THEN ResolutionPlan(None, None, filePathsToBeModified)
     ELSE ResolutionPlan(Some(extractedContents[1][2]),
                         Some(Trim(extractedContents[1][1])), filePathsToBeModified)

\* Lines 159-173: the plan of single-stage planning from the one response.
ParseSingleStageResponse(filesResponse) ==
  LET extractedContents ==
        extractHeaderContents(trimCodeBlockFences(filesResponse), HeadersOfSingleStage)
  IN IF extractedContents = None
     THEN ResolutionPlan(None, None, <<>>)
     ELSE ResolutionPlan(Some(extractedContents[1][2]),
                         Some(Trim(extractedContents[1][1])),
                         ParseFilePaths(extractedContents[1][3]))

\* ------------------------------------------------------ llm.ts: callLlmApi
\* model.split('/'): the provider is the text before the first "/" and the
\* model name the text after it (modelParts.join('/')).
ProviderOf(model) ==
  LET i == IndexOf(model, <<"/">>) IN IF i < 0 THEN model ELSE SubSeq(model, 1, i)

ModelNameOf(model) ==
  LET i == IndexOf(model, <<"/">>) IN
  IF i < 0 THEN <<>> ELSE SubSeq(model, i + 2, Len(model))

\* The providers of the switch of getModelInstance (lines 126-167).
SupportedProviders ==
  {<<"o", "p", "e", "n", "a", "i">>,
   <<"a", "n", "t", "h", "r", "o", "p", "i", "c">>,
   <<"g", "e", "m", "i", "n", "i">>,
   <<"a", "z", "u", "r", "e">>,
   <<"b", "e", "d", "r", "o", "c", "k">>,
   <<"v", "e", "r", "t", "e", "x">>,
   <<"x", "a", "i">>}

\* getModelInstance (lines 116-175): the provider and the model name of the
\* instance it returns; nothing when it ends the process with
\* process.exit(1), for a model without "/" (118-121) or with a provider the
\* switch does not know (169-173).
getModelInstance(model) ==
  IF IndexOf(model, <<"/">>) >= 0 /\ ProviderOf(model) \in SupportedProviders
  THEN Some(<<ProviderOf(model), ModelNameOf(model)>>)
  ELSE None

\* callV4ProviderApi (llmv4.ts lines 16-21): the model name it asks the
\* provider for; nothing when the name is empty and it ends the process.
V4ModelName(model) == IF ModelNameOf(model) /= <<>> THEN Some(ModelNameOf(model)) ELSE None

\* callLlmApi up to its request (lines 21-27): models of ollama and
\* openrouter go to callV4ProviderApi, the others to getModelInstance.  FALSE
\* when the process ends with status 1 before any request is made.
RequestMade(model) ==
  IF IndexOf(model, <<"o", "l", "l", "a", "m", "a", "/">>) = 0 \/ IndexOf(model, <<"o", "p", "e", "n", "r", "o", "u", "t", "e", "r", "/">>) = 0
  THEN IsSome(V4ModelName(model))
  ELSE IsSome(getModelInstance(model))

\* ------------------------------------------- gemini.ts: the listed files
\* What a path names.  `files` holds the entries by their plain paths: the
\* names from the working directory joined by "/" ("d/g"), after ".." for an
\* entry outside it ("../x"), after "/" for a path from the root ("/etc").
PathKinds == {"absent", "file", "directory"}

\* The components of a path: the texts between its "/" characters.
RECURSIVE PathComponents(_)
PathComponents(path) ==
  LET i == IndexOf(path, <<"/">>) IN
  IF i < 0 THEN <<path>>
  ELSE <<SubSeq(path, 1, i)>> \o PathComponents(SubSeq(path, i + 2, Len(path)))

\* The names joined by "/".
RECURSIVE JoinPath(_)
JoinPath(names) ==
  IF names = <<>> THEN <<>>
  ELSE IF Len(names) = 1 THEN names[1]
  ELSE names[1] \o <<"/">> \o JoinPath(Tail(names))

\* What the entry reached by the names is, from the root when absolute and
\* from the working directory otherwise.  The root, the working directory
\* and the directories above it are directories wherever the program runs.
EntryKind(absolute, names) ==
  IF \A i \in 1..Len(names) : names[i] = <<".", ".">> THEN "directory"
  ELSE LET plain == (IF absolute THEN <<"/">> ELSE <<>>) \o JoinPath(names)
       IN IF plain \in DOMAIN files THEN files[plain] ELSE "absent"

\* The path resolved as the system resolves it, component by component from
\* the directory reached by `names`: an empty component and "." stay, ".."
\* goes to the parent (the root is its own parent), a name goes to the entry
\* of that name.  A missing entry ends it (ENOENT), and so does a file with
\* components left to resolve (ENOTDIR).
RECURSIVE KindFrom(_, _, _)
KindFrom(absolute, names, components) ==
  IF components = <<>> THEN "directory"
  ELSE LET c == Head(components)
           rest == Tail(components)
           parent == IF names = <<>> THEN (IF absolute THEN <<>> ELSE <<<<".", ".">>>>)
                     ELSE IF names[Len(names)] = <<".", ".">> THEN Append(names, <<".", ".">>)
                     ELSE SubSeq(names, 1, Len(names) - 1)
       IN IF c = <<>> \/ c = <<".">> THEN KindFrom(absolute, names, rest)
          ELSE IF c = <<".", ".">> THEN KindFrom(absolute, parent, rest)
          ELSE LET kind == EntryKind(absolute, Append(names, c)) IN
               IF kind = "directory" THEN KindFrom(absolute, Append(names, c), rest)
               ELSE IF kind = "file" /\ rest = <<>> THEN "file"
               ELSE "absent"

\* What the path of line 105 names; the empty path names nothing.
KindOf(path) ==
  IF path = <<>> THEN "absent"
  ELSE KindFrom(path[1] = "/", <<>>, PathComponents(path))

\* fs.existsSync(filePath)
existsSync(filePath) == KindOf(filePath) /= "absent"

\* Line 105: the content read for one listed path, '' for a path that does
\* not exist.  FALSE when fs.readFileSync throws, which it does for a
\* directory (EISDIR).
ReadReturns(filePath) == existsSync(filePath) => KindOf(filePath) = "file"

\* Lines 103-113: the files to be modified and to be referred are read, in
\* this order.  FALSE when one of the reads throws; nothing catches the
\* error, so planCodeChanges and main are rejected with it.
FileContentsRead(fileLists) ==
  LET filePaths == fileLists.filePathsToBeModified \o fileLists.filePathsToBeReferred
  IN \A i \in 1..Len(filePaths) : ReadReturns(filePaths[i])

\* The locals of planCodeChanges before it is called.
PlanIdle == [calls |-> 0, fileLists |-> None]

\* main lines 418-428: without a planning model (undefined or '') there is
\* no plan; with one, planCodeChanges starts repomix and awaits its end
\* (lines 59-68).
PlanCodeChangesCall ==
  /\ pc = "planCodeChanges"
  /\ IF ~Truthy(options.planningModel)
     THEN /\ pc' = "branch"
          /\ effects' = effects
     ELSE /\ pc' = "repomixWait"
          /\ effects' = Append(effects, Ev("repomix", 0))
  /\ UNCHANGED <<envVars, callVars, issueVars, planVars, test, main, host>>

\* repomix ends with `status`.  runCommand ends the process on a status
\* other than 0 (process.exit(ret.status)); on 0 planCodeChanges reads the
\* output and makes its first call of the LLM (lines 69-87 or 69-70 and
\* 142-156).  callLlmApi ends the process in the same turn when the model
\* names no provider it can ask.
RepomixExit ==
  /\ pc = "repomixWait"
  /\ \E status \in 0..MaxExitStatus :
       IF status = 0
       THEN /\ effects' = effects \o <<Ev("repomixExit", status), Ev("callLlmApi", 1)>>
            /\ IF RequestMade(options.planningModel[1])
               THEN /\ pc' = "llmWait"
                    /\ plan' = [PlanIdle EXCEPT !.calls = 1]
               ELSE /\ pc' = "exited"
                    /\ plan' = plan
       ELSE /\ pc' = "exited"
            /\ effects' = Append(effects, Ev("repomixExit", status))
            /\ plan' = plan
  /\ UNCHANGED <<envVars, callVars, issueVars, resolutionPlan, test, main, host>>

\* The first call of the LLM ends.  When the request fails callLlmApi
\* catches the error and ends the process (llm.ts lines 92-95, llmv4.ts
\* 37-41).  When it is answered: lines 88-129 (two-stage, up to the second
\* call, which is made for the same model) or 157-173 (single-stage, up to
\* the return).  Between the two calls of two-stage planning the listed
\* files are read (lines 103-113); a read that throws ends planCodeChanges
\* and main with the error.
LlmFirstExit ==
  /\ pc = "llmWait"
  /\ plan.calls = 1
  /\ \E answered \in BOOLEAN :
       IF ~answered
       THEN /\ pc' = "exited"
            /\ UNCHANGED <<effects, plan, resolutionPlan>>
       ELSE IF options.twoStagePlanning
       THEN LET lists == ParseFileLists(llm[1]) IN
            IF lists = None
            THEN /\ resolutionPlan' = Some(ResolutionPlan(None, None, <<>>))
                 /\ pc' = "branch"
                 /\ UNCHANGED <<effects, plan>>
            ELSE IF ~FileContentsRead(lists[1])
            THEN /\ pc' = "thrown"
                 /\ UNCHANGED <<effects, plan, resolutionPlan>>
            ELSE /\ plan' = [calls |-> 2, fileLists |-> lists]
                 /\ effects' = Append(effects, Ev("callLlmApi", 2))
                 /\ pc' = IF RequestMade(options.planningModel[1]) THEN pc ELSE "exited"
                 /\ UNCHANGED resolutionPlan
       ELSE /\ resolutionPlan' = Some(ParseSingleStageResponse(llm[1]))
            /\ pc' = "branch"
            /\ UNCHANGED <<effects, plan>>
  /\ UNCHANGED <<envVars, callVars, issueVars, test, main, host>>

\* The second call of the LLM ends: the process ends when the request
\* fails (llm.ts lines 92-95); otherwise lines 130-140.
LlmSecondExit ==
  /\ pc = "llmWait"
  /\ plan.calls = 2
  /\ \E answered \in BOOLEAN :
       IF ~answered
       THEN /\ pc' = "exited"
            /\ UNCHANGED resolutionPlan
       ELSE /\ resolutionPlan' =
                 Some(ParsePlanResponse(llm[2], plan.fileLists[1].filePathsToBeModified))
            /\ pc' = "branch"
  /\ UNCHANGED <<envVars, callVars, issueVars, effects, plan, test, main, host>>

\* ------------------------------------------------------- test.ts: the loop
\* runToolFix's toolName.
FixToolName(codingTool) ==
  IF codingTool = "aider" THEN <<"A", "i", "d", "e", "r">>
  ELSE IF codingTool = "claude-code" THEN <<"C", "l", "a", "u", "d", "e", " ", "C", "o", "d", "e">>
  ELSE IF codingTool = "codex-cli" THEN <<"C", "o", "d", "e", "x", " ", "C", "L", "I">>
  ELSE <<"G", "e", "m", "i", "n", "i", " ", "C", "L", "I">>

\* The string runToolFix returns (line 239): the attributed section of one
\* fix attempt.  The template takes options.testCommand as it is: an
\* undefined command reads "undefined".
FixSection(opts, assistantResult) ==
  LET testCommand == IF opts.testCommand = None THEN <<"u", "n", "d", "e", "f", "i", "n", "e", "d">>
                     ELSE opts.testCommand[1]
  IN <<"\n", "\n", "#", "#", " ">> \o FixToolName(opts.codingTool)
     \o <<" ", "f", "i", "x", " ", "a", "t", "t", "e", "m", "p", "t", " ", "f", "o", "r", " ", "\"">>
     \o testCommand \o <<"\"", "\n", "\n">> \o Trim(assistantResult)

\* lastError of a failed test run: a non-empty string carrying the status.
FailureSummary(status) == <<"Test command failed with exit code", status>>

\* The locals of testAndFix at entry (lines 125-129).
TestLocals ==
  [attempts |-> 0, fixResult |-> <<>>, success |-> FALSE, lastError |-> <<>>,
   returned |-> FALSE, error |-> None]

\* The value testAndFix returns (line 179) from its locals.
TestReturn(loc) ==
  [loc EXCEPT !.returned = TRUE,
              !.error = IF loc.success THEN None ELSE Some(loc.lastError)]

\* The loop head (line 131) and the synchronous code up to the spawn of the
\* test command (line 135), or the return when the loop is over.
TestLoopHead(loc) ==
  IF JsLess(loc.attempts, options.maxTestAttempts)
  THEN /\ test' = [loc EXCEPT !.attempts = loc.attempts + 1]
       /\ effects' = Append(effects, Ev("test", loc.attempts + 1))
       /\ pc' = "testWait"
  ELSE /\ test' = TestReturn(loc)
       /\ effects' = effects
       /\ pc' = "afterTest"

\* main line 523 calls testAndFix: lines 121-135.
TestAndFixCall ==
  /\ pc = "testAndFix"
  /\ ~options.dryRun
  /\ LET args == parseCommandLineArgs(OrEmpty(options.testCommand)) IN
     IF args = <<>>
     THEN /\ test' = [TestLocals EXCEPT !.success = TRUE, !.returned = TRUE]
          /\ effects' = effects
          /\ pc' = "afterTest"
     ELSE TestLoopHead(TestLocals)
  /\ UNCHANGED <<envVars, callVars, issueVars, planVars, main, host>>

\* The test process ends with `status`: lines 139-176 up to the next await.
TestProcessExit ==
  /\ pc = "testWait"
  /\ \E status \in 0..MaxExitStatus :
       IF status = 0
       THEN /\ test' = TestReturn([test EXCEPT !.success = TRUE])
            /\ effects' = Append(effects, Ev("testExit", status))
            /\ pc' = "afterTest"
       ELSE LET loc == [test EXCEPT !.lastError = FailureSummary(status)] IN
            IF JsGeq(loc.attempts, options.maxTestAttempts)
            THEN /\ test' = TestReturn(loc)
                 /\ effects' = Append(effects, Ev("testExit", status))
                 /\ pc' = "afterTest"
            ELSE /\ test' = loc
                 /\ effects' = Append(Append(effects, Ev("testExit", status)), Ev("fix", loc.attempts))
                 /\ pc' = "fixWait"
  /\ UNCHANGED <<envVars, callVars, issueVars, planVars, main, host>>

\* runToolFix returns (line 176): its section is appended to fixResult and
\* the loop goes round.
ToolFixExit ==
  /\ pc = "fixWait"
  /\ \E assistantResult \in {<<>>, <<"o", "k", "\n">>} :
       TestLoopHead([test EXCEPT
         !.fixResult = test.fixResult \o FixSection(options, assistantResult)])
  /\ UNCHANGED <<envVars, callVars, issueVars, planVars, main, host>>

\* ------------------------------------------------- text.ts: truncateText
\* 2^n and the whole part of the binary logarithm of n >= 1.
RECURSIVE Pow2(_)
Pow2(n) == IF n = 0 THEN 1 ELSE 2 * Pow2(n - 1)

RECURSIVE Log2(_)
Log2(n) == IF n < 2 THEN 0 ELSE 1 + Log2(n \div 2)

\* A number (binary64) that need not be whole: the fraction num / den when
\* dev = 0; when dev is 1 or -1, the whole number num / den is missed by
\* the rounding of the arithmetic and the number is the next one above or
\* below it.
Fraction(num, den) == [num |-> num, den |-> den, dev |-> 0]

\* `\n\n... (${Math.floor(omitted)} characters truncated) ...`
TruncatedMarker(omitted) ==
  <<"\n", "\n", ".", ".", ".", " ", "(">> \o NumberToString(omitted) \o
  <<" ", "c", "h", "a", "r", "a", "c", "t", "e", "r", "s", " ", "t", "r", "u", "n", "c", "a", "t", "e", "d", ")", " ", ".", ".", ".">>

\* The whole part of a number, and the least whole number not below a
\* fraction.
Floor(x) == IF x.dev < 0 THEN x.num \div x.den - 1 ELSE x.num \div x.den

Ceiling(x) == (x.num + x.den - 1) \div x.den

\* Math.floor(text.length - maxLength) for length > maxLength.  The
\* difference is rounded to binary64: with maxLength a fraction or just
\* below a whole number, the whole part of the rounded difference is that of
\* the exact one.  With maxLength the number next above the whole number k,
\* the difference from length = k + m is the number next below m when that
\* number is as near to m as maxLength is to k, and m itself when the
\* numbers below m lie wider apart.
FloorOfOmitted(length, maxLength) ==
  IF maxLength.dev > 0
  THEN LET k == maxLength.num \div maxLength.den
           n == length - k
       IN IF \/ n /= Pow2(Log2(n)) /\ Log2(k) < Log2(n)
             \/ n = Pow2(Log2(n)) /\ Log2(k) + 1 < Log2(n)
          THEN n ELSE n - 1
  ELSE length - Ceiling(maxLength)

\* truncateText(text: string, maxLength: number): string.  A whole number is
\* greater than maxLength iff it is greater than its whole part;
\* slice(0, maxLength) takes the whole part of maxLength; omitted is
\* text.length - maxLength, of which Math.floor is taken.
truncateText(text, maxLength) ==
  IF Len(text) > Floor(maxLength)
  THEN SubSeq(text, 1, Floor(maxLength))
       \o TruncatedMarker(FloorOfOmitted(Len(text), maxLength))
  ELSE text

\* -------------------------------------------------------- main.ts: main
\* getToolName of the tool registry.
getToolName(codingTool) ==
  CASE codingTool = "aider" -> "Aider"
    [] codingTool = "claude-code" -> "Claude Code"
    [] codingTool = "codex-cli" -> "Codex CLI"
    [] codingTool = "gemini-cli" -> "Gemini CLI"

\* The locals of main before it runs.
MainLocals ==
  [isPullRequest |-> FALSE, planText |-> <<>>, toolResult |-> <<>>,
   toolSuccess |-> TRUE, toolError |-> <<>>, fixResult |-> <<>>,
   testSuccess |-> TRUE, testError |-> <<>>, shouldBeDraft |-> FALSE,
   errorLogs |-> <<>>, commitMessage |-> <<>>, headerOfFirstCommit |-> <<>>]

\* Lines 372-409: configuration and installation of the tool.  Outside a dry
\* run configureGitUserDetailsIfNeeded may set the git user, and for aider
\* the tool is installed: commands run without ignoreExitStatus, so that a
\* status other than 0 ends the process (installed = FALSE).
MainStart ==
  /\ pc = "start"
  /\ \E installed \in BOOLEAN :
       /\ ~installed => (~options.dryRun \/ options.codingTool = "aider")
       /\ pc' = IF installed THEN "getBaseBranch" ELSE "exited"
  /\ UNCHANGED <<envVars, callVars, effects, issueVars, planVars, test, main, host>>

\* Lines 411-413: getBaseBranch asks `gh pr view` for the head of the pull
\* request and ignores its failure; the subject is taken for a pull request
\* iff gh answered with one (prBaseBranch), whatever getIssue says later.
\* Without one getCurrentBranch runs git, whose failure ends the process.
GetBaseBranch ==
  /\ pc = "getBaseBranch"
  /\ \E prBaseBranch \in BOOLEAN, currentBranch \in BOOLEAN :
       /\ prBaseBranch => currentBranch
       /\ main' = [main EXCEPT !.isPullRequest = prBaseBranch]
       /\ pc' = IF currentBranch THEN "createIssueInfo" ELSE "exited"
  /\ effects' = Append(effects, Ev("getBaseBranch", options.issueNumber))
  /\ UNCHANGED <<envVars, callVars, issueVars, planVars, test, host>>

\* Line 431: planText.
PlanText == IF resolutionPlan = None THEN <<>> ELSE OrEmpty(resolutionPlan[1].plan)

\* Lines 431-474: the prompt, then the branch the work happens on.  A git
\* command that fails ends the process (runCommand without ignoreExitStatus).
SwitchBranch ==
  /\ pc = "branch"
  /\ main' = [main EXCEPT !.planText = PlanText]
  /\ IF options.dryRun
     THEN /\ pc' = "tool"
          /\ effects' = effects
     ELSE \E ok \in BOOLEAN :
            /\ pc' = IF ok THEN "tool" ELSE "exited"
            /\ effects' = Append(effects,
                 IF options.noBranch THEN Ev("switchBase", IF ok THEN 0 ELSE 1)
                 ELSE Ev("createBranch", IF ok THEN 0 ELSE 1))
  /\ UNCHANGED <<envVars, callVars, issueVars, planVars, test, host>>

\* Lines 476-508: the coding tool is started, or skipped in a dry run.
ToolRun ==
  /\ pc = "tool"
  /\ IF options.dryRun
     THEN /\ main' = [main EXCEPT !.toolResult =
                           <<"S", "k", "i", "p", "p", "e", "d", " ", "d", "u", "e", " ", "t", "o", " ", "d", "r", "y", "-", "r", "u", "n", " ", "m", "o", "d", "e">>]
          /\ pc' = "testAndFix"
          /\ effects' = effects
     ELSE /\ pc' = "toolWait"
          /\ effects' = Append(effects, Ev("tool", 0))
          /\ main' = main
  /\ UNCHANGED <<envVars, callVars, issueVars, planVars, test, host>>

\* Lines 508-515: the coding tool ended with `status`.
ToolExit ==
  /\ pc = "toolWait"
  /\ \E status \in 0..MaxExitStatus, stdout \in {<<>>, <<"o">>} :
       /\ main' = [main EXCEPT
            !.toolResult = stdout,
            !.toolSuccess = (status = 0),
            !.toolError = IF status = 0 THEN <<>>
                          ELSE <<getToolName(options.codingTool), "failed with exit code", status>>]
       /\ effects' = Append(effects, Ev("toolExit", status))
  /\ pc' = "testAndFix"
  /\ UNCHANGED <<envVars, callVars, issueVars, planVars, test, host>>

\* Lines 520-521: a dry run does not run the test command.
SkipTest ==
  /\ pc = "testAndFix"
  /\ options.dryRun
  /\ pc' = "afterTest"
  /\ UNCHANGED <<envVars, callVars, effects, issueVars, planVars, test, main, host>>

\* One labelled section of errorLogs.
ErrorSection(label, text) == [label |-> label, text |-> text]

\* Lines 537-546: errorLogs from the two error strings.
ErrorLogs(shouldBeDraft, toolError, testError) ==
  IF ~shouldBeDraft THEN <<>>
  ELSE (IF toolError /= <<>> THEN <<ErrorSection("Execution Error", toolError)>> ELSE <<>>)
       \o (IF testError /= <<>> THEN <<ErrorSection("Test Execution Error", testError)>>
           ELSE <<>>)

\* Line 549: the commit message.
CommitMessage ==
  IF resolutionPlan /= None /\ OrEmpty(resolutionPlan[1].commitMessage) /= <<>>
  THEN resolutionPlan[1].commitMessage[1]
  ELSE <<"fix: Close #", options.issueNumber>>

\* Lines 524-561: the result of the tests is taken over (outside a dry run),
\* the draft flag and the error sections are computed, and the changes are
\* committed, a second time without the hooks when the first commit fails.
CommitChanges ==
  /\ pc = "afterTest"
  /\ LET fixResult == IF options.dryRun THEN <<>> ELSE test.fixResult
         testSuccess == IF options.dryRun THEN TRUE ELSE test.success
         testError == IF options.dryRun THEN <<>> ELSE OrEmpty(test.error)
         shouldBeDraft == ~main.toolSuccess \/ ~testSuccess
     IN main' = [main EXCEPT
          !.fixResult = fixResult, !.testSuccess = testSuccess, !.testError = testError,
          !.shouldBeDraft = shouldBeDraft,
          !.errorLogs = ErrorLogs(shouldBeDraft, main.toolError, testError),
          !.commitMessage = CommitMessage]
  /\ \E status \in {0, 1} :
       effects' = effects \o <<Ev("gitAdd", 0), Ev("commit", status)>>
                  \o (IF status /= 0 THEN <<Ev("commitNoVerify", 0)>> ELSE <<>>)
  /\ pc' = "push"
  /\ UNCHANGED <<envVars, callVars, issueVars, planVars, test, host>>

\* The push left out in every run.
PushSkipped ==
  /\ pc = "push"
  /\ pc' = "createPullRequest"
  /\ UNCHANGED <<envVars, callVars, effects, issueVars, planVars, test, main, host>>

\* Lines 562-574: the push, skipped in a dry run.
Push ==
  /\ pc = "push"
  /\ IF options.dryRun
     THEN /\ pc' = "createPullRequest"
          /\ effects' = effects
     ELSE \E ok \in BOOLEAN :
            /\ pc' = IF ok THEN "createPullRequest" ELSE "exited"
            /\ effects' = Append(effects,
                 IF options.noBranch THEN Ev("pushBase", IF ok THEN 0 ELSE 1)
                 ELSE Ev("pushBranch", IF ok THEN 0 ELSE 1))
  /\ UNCHANGED <<envVars, callVars, issueVars, planVars, test, main, host>>

MAX_PR_BODY_LENGTH == 30000

\* The quotient a / s (0 < a < s) in binary64 is M * 2^-(z + 53), where z
\* is the number of zeros its binary fraction begins with and M the whole
\* number nearest to a * 2^(z + 53) / s (the even one of two equally near).
RECURSIVE LeadingZeros(_, _)
LeadingZeros(a, s) == IF 2 * a >= s THEN 0 ELSE 1 + LeadingZeros(2 * a, s)

\* Long division, eight bits at a time: from r, the remainder of a * 2^n by
\* s, and odd, the parity of the quotient, to those of a * 2^(n + left).
RECURSIVE DivideOn(_, _, _, _)
DivideOn(r, odd, s, left) ==
  IF left = 0 THEN [r |-> r, odd |-> odd]
  ELSE LET bits == IF left >= 8 THEN 8 ELSE left
           x == r * Pow2(bits)
       IN DivideOn(x % s, (x \div s) % 2 = 1, s, left - bits)

\* M * s - a * 2^(z + 53): what the rounded quotient has too much (or, when
\* negative, too little), in units of 2^-(z + 53) / s.
QuotientExcess(a, s) ==
  LET d == DivideOn(a, FALSE, s, LeadingZeros(a, s) + 53) IN
  IF 2 * d.r < s \/ (2 * d.r = s /\ ~d.odd) THEN 0 - d.r ELSE s - d.r

RECURSIVE Gcd(_, _)
Gcd(a, b) == IF b = 0 THEN a ELSE Gcd(b, a % b)

\* (a / s) * MAX_PR_BODY_LENGTH in binary64, for 0 <= a <= s and s > 0.  The
\* rounded value is within 10^-11 of the exact one, so it has the whole part
\* of the exact value and compares like it with every whole number, unless
\* the exact value is a whole number k.  Then the product of the rounded
\* quotient is k + e * 2^-(z + 53) for a whole e, which rounds to k, or to
\* the number next above or below k when e is more than half the distance to
\* it: the distance is 2^(Log2(k) - 52), and half of that below a power of 2.
ShareOf(a, s) ==
  IF a = 0 \/ a = s \/ (a * MAX_PR_BODY_LENGTH) % s /= 0
  THEN Fraction(a * MAX_PR_BODY_LENGTH, s)
  ELSE LET g == Gcd(MAX_PR_BODY_LENGTH, s)
           k == (a * MAX_PR_BODY_LENGTH) \div s
           e == (MAX_PR_BODY_LENGTH \div g) * (QuotientExcess(a, s) \div (s \div g))
           half == Pow2(Log2(k) + LeadingZeros(a, s))
       IN [num |-> k, den |-> 1,
           dev |-> IF e > half THEN 1
                   ELSE IF e < 0 - half \/ (k = Pow2(Log2(k)) /\ 2 * e < 0 - half)
                   THEN 0 - 1 ELSE 0]

\* (toolResponse.length / (planText.length + toolResponse.length)) *
\* MAX_PR_BODY_LENGTH: the length given to truncateText at lines 605 and 615.
BodyShare(planText, toolResponse) ==
  ShareOf(Len(toolResponse), Len(planText) + Len(toolResponse))

\* Lines 598-607: the text between the fences of the plan; nothing without
\* a plan.
PlanSection(planText, toolResponse) ==
  IF planText = <<>> THEN <<>>
  ELSE truncateText(planText, BodyShare(planText, toolResponse))

\* Lines 608-617: the text between the fences of the log; nothing without a
\* response.
LogSection(planText, toolResponse) ==
  IF toolResponse = <<>> THEN <<>>
  ELSE truncateText(toolResponse, BodyShare(planText, toolResponse))

\* Lines 517 and 524: toolResponse.
ToolResponse == Trim(main.toolResult) \o main.fixResult

\* s.replaceAll(/(?:\s*\n){2,}/g, '\n\n') from index `from` on, `white` being
\* the indices of the white space not yet passed.  A match begins where a run
\* of white space begins and ends at the last line feed of the run; there is
\* one iff the run holds two line feeds or more.
RECURSIVE CollapseFrom(_, _, _)
CollapseFrom(s, white, from) ==
  IF white = {} THEN SubSeq(s, from, Len(s))
  ELSE LET a == CHOOSE i \in white : \A j \in white : i <= j
           b == CHOOSE k \in white :
                  k >= a /\ (\A j \in a..k : j \in white) /\ (k + 1) \notin white
           feeds == {i \in a..b : s[i] = "\n"}
           last == CHOOSE i \in feeds : \A j \in feeds : j <= i
       IN SubSeq(s, from, a - 1)
          \o (IF Cardinality(feeds) >= 2 THEN <<"\n", "\n">> \o SubSeq(s, last + 1, b)
              ELSE SubSeq(s, a, b))
          \o CollapseFrom(s, white \ (a..b), b + 1)

\* Line 618 without the trim: runs of blank lines become one blank line.
CollapseBlankLines(s) == CollapseFrom(s, {i \in 1..Len(s) : IsSpace(s[i])}, 1)

\* What line 618 leaves of a text that lines 604-606 or 614-616 put between
\* two fence lines: the line feed after the opening fence and the one before
\* the closing fence belong to the runs of white space the text begins and
\* ends with.  The fences are not white space, and neither end of the body
\* is, so the trim of line 618 takes nothing from these texts.
BetweenFences(text) ==
  IF text = <<>> THEN <<>>
  ELSE LET t == CollapseBlankLines(<<"\n">> \o text \o <<"\n">>) IN SubSeq(t, 2, Len(t) - 1)

\* Lines 585-623: the body of the pull request.  plan and log are the texts
\* between the fence lines of the two sections; the line of the planning
\* model is written for a model that is neither undefined nor '' (line 587).
PrBody ==
  [closes |-> ~main.isPullRequest,
   planningModel |-> IF Truthy(options.planningModel) THEN options.planningModel ELSE None,
   toolName |-> getToolName(options.codingTool),
   plan |-> BetweenFences(PlanSection(main.planText, ToolResponse)),
   log |-> BetweenFences(LogSection(main.planText, ToolResponse)),
   errorLogs |-> IF main.shouldBeDraft THEN main.errorLogs ELSE <<>>]

\* Line 584: getHeaderOfFirstCommit reads what `git log base..HEAD --reverse`
\* shows first: the subject of a commit the coding tool made itself, or
\* nothing to tell from commitMessage (the commit of main is the first one,
\* or there is none).
FirstCommitHeaders == {<<>>, <<"c">>}

\* The PullRequestParams main passes to createPullRequest (lines 628-634)
\* when getHeaderOfFirstCommit answers headerOfFirstCommit; the title is
\* that of line 584.
PullRequestParamsWith(headerOfFirstCommit) ==
  [title |-> IF headerOfFirstCommit /= <<>> THEN headerOfFirstCommit
             ELSE main.commitMessage,
   body |-> PrBody, head |-> "newBranchName",
   base |-> "baseBranch", draft |-> main.shouldBeDraft]

PullRequestParams == PullRequestParamsWith(main.headerOfFirstCommit)

\* createPullRequest (octokit.ts): the request octokit.pulls.create sends.
createPullRequest(params) ==
  [title |-> params.title, body |-> params.body, head |-> params.head,
   base |-> params.base]

\* The code host creates the pull request asked for; it is a draft iff the
\* request says so.
HostPullRequest(request) ==
  [title |-> request.title, body |-> request.body, head |-> request.head,
   base |-> request.base,
   draft |-> IF "draft" \in DOMAIN request THEN request.draft ELSE FALSE]

\* The pull request created whether or not there is a branch for it.
CreatePullRequestAlways ==
  /\ pc = "createPullRequest"
  /\ UNCHANGED <<envVars, callVars, issueVars, planVars, test>>
  /\ \E header \in FirstCommitHeaders :
       /\ main' = [main EXCEPT !.headerOfFirstCommit = header]
       /\ IF options.dryRun
          THEN UNCHANGED <<effects, host>>
          ELSE /\ host' = Append(host,
                      HostPullRequest(createPullRequest(PullRequestParamsWith(header))))
               /\ effects' = Append(effects, Ev("createPullRequest", 0))
  /\ pc' = "done"

\* Lines 577-638: with noBranch nothing but a log line; otherwise the title
\* is read from the first commit (line 584), the body is built, and the pull
\* request is created unless the run is a dry run.
CreatePullRequest ==
  /\ pc = "createPullRequest"
  /\ UNCHANGED <<envVars, callVars, issueVars, planVars, test>>
  /\ IF options.noBranch
     THEN UNCHANGED <<effects, host, main>>
     ELSE \E header \in FirstCommitHeaders :
            /\ main' = [main EXCEPT !.headerOfFirstCommit = header]
            /\ IF options.dryRun
               THEN UNCHANGED <<effects, host>>
               ELSE /\ host' = Append(host,
                           HostPullRequest(createPullRequest(PullRequestParamsWith(header))))
                    /\ effects' = Append(effects, Ev("createPullRequest", 0))
  /\ pc' = "done"

\* ------------------------------------------------------------ the options
\* MainOptions as the drivers build them when nothing is configured
\* (DEFAULT_CODING_TOOL, DEFAULT_MAX_TEST_ATTEMPTS).
DefaultOptions ==
  [codingTool |-> "aider", dryRun |-> FALSE, noBranch |-> FALSE, issueNumber |-> 1,
   maxTestAttempts |-> Num(5), planningModel |-> None, twoStagePlanning |-> FALSE,
   testCommand |-> None, removePattern |-> None]

\* ------------------------------------------------- the parts when idle
\* The state of the issue machine before createIssueInfo is called.
IssueIdle ==
  /\ apiCalls = <<>>
  /\ visited = {}
  /\ tasks = <<>>
  /\ issueInfo = None

\* The state of planCodeChanges before it is called.
PlanningIdle ==
  /\ plan = PlanIdle
  /\ resolutionPlan = None

\* The state of main and of the code host before main runs.
MainIdle ==
  /\ main = MainLocals
  /\ host = <<>>
  /\ effects = <<>>

\* No function is called on its own.
NoCall ==
  /\ call = [fn |-> "none"]
  /\ value = None

NoIssues == <<>>
NoResponses == <<>>
NoFiles == <<>>

\* ------------------------------------------------------------ test/fix spec
\* testAndFix as main calls it at line 523.
TestCommands ==
  {None, Some(<<>>), Some(<<" ">>), Some(<<"\"", "\"">>), Some(<<"t">>),
   Some(<<"t", " ", "-", "a">>)}

AttemptValues == {Num(n) : n \in 0..MaxAttemptsBound} \cup {Num(0 - 1), NaN}

InitTest ==
  /\ \E tool \in CodingTools, cmd \in TestCommands, n \in AttemptValues :
       options = [DefaultOptions EXCEPT !.codingTool = tool, !.testCommand = cmd,
                                        !.maxTestAttempts = n]
  /\ issues = NoIssues
  /\ llm = NoResponses
  /\ files = NoFiles
  /\ IssueIdle
  /\ PlanningIdle
  /\ MainIdle
  /\ NoCall
  /\ pc = "testAndFix"
  /\ test = TestLocals

NextTest == TestAndFixCall \/ TestProcessExit \/ ToolFixExit

SpecTest == InitTest /\ [][NextTest]_vars

\* ------------------------------------------------------- attempt-count spec
\* The values of maxTestAttempts the command line lets through: the whole
\* numbers of the test/fix specification and the halves between them.
AttemptNumbers == AttemptValues \cup {Halves(2 * n + 1) : n \in 0..(MaxAttemptsBound - 1)}

InitAttempts ==
  /\ \E tool \in CodingTools, n \in AttemptNumbers :
       options = [DefaultOptions EXCEPT !.codingTool = tool, !.testCommand = Some(<<"t">>),
                                        !.maxTestAttempts = n]
  /\ issues = NoIssues
  /\ llm = NoResponses
  /\ files = NoFiles
  /\ IssueIdle
  /\ PlanningIdle
  /\ MainIdle
  /\ NoCall
  /\ pc = "testAndFix"
  /\ test = TestLocals

NextAttempts == TestAndFixCall \/ TestProcessExit \/ ToolFixExit

SpecAttempts == InitAttempts /\ [][NextAttempts]_vars

\* ---------------------------------------------------------- issue-tree spec
\* "#n" for a one-digit n.
Ref(n) == <<"#", DigitChar(n)>>

AnIssue(n, body, comments) ==
  [ok |-> TRUE, isPR |-> FALSE, author |-> <<"a">>, title |-> n, body |-> body,
   comments |-> comments, diff |-> None, reviewThreads |-> None, reviews |-> None]

AComment(body, createdAt) == [author |-> <<"b">>, body |-> body, createdAt |-> Some(createdAt)]

\* A comment of a review thread on line 1 of the file f, and a thread.
AThreadComment(author, body, createdAt) ==
  [author |-> author, body |-> body, path |-> Some(<<"f">>), line |-> Some(1),
   diffHunk |-> Some(<<"@", "@", "\n", " ", "c", "\n", "+", "\n", "+", " ", "x">>),
   createdAt |-> Some(createdAt)]

AThread(isResolved, comments) == [isResolved |-> isResolved, comments |-> comments]

\* A review as getPullRequestReviews answers it; submitted_at is None for a
\* review without a submission date (octokit.ts line 221 makes it '').
AReview(state, body, submitted_at) ==
  [user |-> <<"r">>, state |-> state, body |-> body, submitted_at |-> submitted_at]

\* The texts issue n is drawn from: no reference; one forward reference; a
\* reference back to issue 1 beside a "#" that is no reference; two forward
\* references whose first appearances are in descending order, repeated in
\* the comments in ascending order, with a reference back to issue 1.
IssueText(n, k) ==
  CASE k = 1 -> AnIssue(n, <<"x">>, <<>>)
    [] k = 2 -> AnIssue(n, Ref(n + 1), <<>>)
    [] k = 3 -> AnIssue(n, Ref(1) \o <<" ", "x">> \o Ref(3), <<>>)
    [] k = 4 -> AnIssue(n, Ref(n + 2) \o <<"\r", "\n">> \o Ref(n + 1),
                        <<AComment(Ref(n + 1) \o <<" ">> \o Ref(n + 2) \o <<"\n">> \o Ref(1), 3),
                          AComment(<<" ">>, 1)>>)

TextKinds == 1..4

\* A code host: NumIssues issues with the texts `kinds` picks, of which issue
\* `failing` (none when 0) cannot be fetched and those in `pulls` are pull
\* requests.  Issue numbers above NumIssues do not exist (getIssue fails).
Host(kinds, failing, pulls) ==
  [n \in 1..NumIssues |->
     [IssueText(n, kinds[n]) EXCEPT !.ok = (n /= failing), !.isPR = (n \in pulls)]]

\* The primary subject is an issue; a referenced item may be a pull request.
InitIssue ==
  /\ options = DefaultOptions
  /\ \E kinds \in [1..NumIssues -> TextKinds], failing \in 0..NumIssues,
        pulls \in {{}, {2}} :
       issues = Host(kinds, failing, pulls)
  /\ llm = NoResponses
  /\ files = NoFiles
  /\ IssueIdle
  /\ PlanningIdle
  /\ MainIdle
  /\ NoCall
  /\ pc = "createIssueInfo"
  /\ test = TestLocals

NextIssue ==
  \/ CreateIssueInfoCall
  \/ \E t \in 1..Len(tasks) :
       \/ GetIssueFail(t)
       \/ GetIssueExit(t)
       \/ ReferencedIssuesSettled(t)
  \/ CreateIssueInfoReturn

SpecIssue == InitIssue /\ [][NextIssue]_vars

\* ------------------------------------------------------- pull-request spec
\* Issue n of the host as a pull request with a diff, one comment in an
\* unresolved review thread and one review.
AsPullRequest(h, n) ==
  [h EXCEPT ![n].isPR = TRUE,
            ![n].diff = Some(<<" ", "d">>),
            ![n].reviewThreads = Some(<<AThread(FALSE, <<AThreadComment(Some(<<"r">>), <<"c">>, 2)>>)>>),
            ![n].reviews = Some(<<AReview("APPROVED", <<"v">>, Some(1))>>)]

\* The plain comments of the primary subject: none; comments at t = 3 and
\* t = 1; comments at t = 2 and t = 3 and one of white space at t = 4.
PullComments ==
  {<<>>,
   <<AComment(<<"a">>, 3), AComment(<<"b">>, 1)>>,
   <<AComment(<<"a">>, 2), AComment(<<"b">>, 3), AComment(<<" ">>, 4)>>}

\* The diffs: the fetch fails, a diff, a diff of white space.
PullDiffs == {None, Some(<<" ", "d">>), Some(<<" ">>)}

\* The review threads: the fetch fails; no thread; an unresolved thread with
\* a comment at t = 2, a comment of a deleted account (no author) at t = 1
\* and a comment without body, and a resolved thread with a comment at t = 0.
PullThreads ==
  {None, Some(<<>>),
   Some(<<AThread(FALSE, <<AThreadComment(Some(<<"r">>), <<"c">>, 2),
                           AThreadComment(None, <<"g">>, 1),
                           AThreadComment(Some(<<"r">>), <<>>, 5)>>),
          AThread(TRUE, <<AThreadComment(Some(<<"r">>), <<"z">>, 0)>>)>>)}

\* The reviews: the fetch fails; a verdict at t = 2; a verdict without body
\* at t = 5 before one at t = 2; a review without submission date before a
\* verdict at t = 1.
PullReviews ==
  {None,
   Some(<<AReview("APPROVED", <<"v">>, Some(2))>>),
   Some(<<AReview("COMMENTED", <<>>, Some(5)), AReview("APPROVED", <<"v">>, Some(2))>>),
   Some(<<AReview("PENDING", <<"p">>, None), AReview("APPROVED", <<"v">>, Some(1))>>)}

\* A code host of three items.  Item 1, the primary subject, is an issue or
\* a pull request and references item 2 or nothing; item 2 is an issue or a
\* pull request, available or not, and references nothing or items 1 and 3;
\* item 3 is a pull request.  Every pull request but the primary has a
\* diff, a review thread and a review the host would answer with, and the
\* body of item 3 ends with a metadata section.
PullHost(isPR, refers, comments, diff, reviewThreads, reviews, ok2, isPR2, refers2) ==
  LET primary == [AnIssue(1, IF refers THEN Ref(2) ELSE <<"x">>, comments) EXCEPT
                    !.isPR = isPR, !.diff = diff, !.reviewThreads = reviewThreads,
                    !.reviews = reviews]
      second == AnIssue(2, IF refers2 THEN Ref(1) \o <<" ">> \o Ref(3) ELSE <<"x">>,
                        <<AComment(<<"k">>, 1)>>)
      third == AnIssue(3, <<"x", "\n">> \o HEADING_OF_GEN_PR_METADATA \o <<"\n", "m">>, <<>>)
      h == <<primary, [second EXCEPT !.ok = ok2], third>>
  IN [n \in 1..3 |-> IF n = 3 \/ (n = 2 /\ isPR2) THEN AsPullRequest(h, n)[n] ELSE h[n]]

InitPull ==
  /\ options = DefaultOptions
  /\ \E isPR \in BOOLEAN, refers \in BOOLEAN, comments \in PullComments, diff \in PullDiffs,
        reviewThreads \in PullThreads, reviews \in PullReviews,
        ok2 \in BOOLEAN, isPR2 \in BOOLEAN, refers2 \in BOOLEAN :
       issues = PullHost(isPR, refers, comments, diff, reviewThreads, reviews,
                         ok2, isPR2, refers2)
  /\ llm = NoResponses
  /\ files = NoFiles
  /\ IssueIdle
  /\ PlanningIdle
  /\ MainIdle
  /\ NoCall
  /\ pc = "createIssueInfo"
  /\ test = TestLocals

NextPull ==
  \/ CreateIssueInfoCall
  \/ \E t \in 1..Len(tasks) :
       \/ GetIssueFail(t)
       \/ GetIssueExit(t)
       \/ PRDiffExit(t)
       \/ PRReviewThreadsExit(t)
       \/ PRReviewsExit(t)
       \/ ReferencedIssuesSettled(t)
  \/ CreateIssueInfoReturn

SpecPull == InitPull /\ [][NextPull]_vars

\* ------------------------------------------------------------ removal spec
\* The sequences of length n over the alphabet.
RECURSIVE SeqsOfLen(_, _)
SeqsOfLen(alphabet, n) ==
  IF n = 0 THEN {<<>>}
  ELSE {Append(q, c) : q \in SeqsOfLen(alphabet, n - 1), c \in alphabet}

SeqsUpToLen(alphabet, n) == UNION {SeqsOfLen(alphabet, k) : k \in 0..n}

\* The removal patterns: unset, empty, and every text of literals, dots,
\* stars and brackets up to MaxPatternLen.
RemovalPatterns ==
  {None} \cup {Some(p) : p \in SeqsUpToLen({"a", "b", ".", "*", "[", "]"}, MaxPatternLen)}

RedactedTexts == SeqsUpToLen({"a", "b"}, MaxRedactedLen)

\* Issue 1 holds the text, a line feed and a reference to issue 2, which
\* holds an HTML comment and may fail to be fetched.
RedactHost(text, ok2) ==
  [n \in 1..2 |->
     IF n = 1 THEN AnIssue(1, text \o <<"\n">> \o Ref(2), <<>>)
     ELSE [AnIssue(2, <<"a", "<", "!", "-", "-", "b", "-", "-", ">", "b", "a">>, <<>>) EXCEPT !.ok = ok2]]

InitRedact ==
  /\ \E pattern \in RemovalPatterns : options = [DefaultOptions EXCEPT !.removePattern = pattern]
  /\ \E text \in RedactedTexts, ok2 \in BOOLEAN : issues = RedactHost(text, ok2)
  /\ llm = NoResponses
  /\ files = NoFiles
  /\ IssueIdle
  /\ PlanningIdle
  /\ MainIdle
  /\ NoCall
  /\ pc = "createIssueInfo"
  /\ test = TestLocals

NextRedact ==
  \/ CreateIssueInfoCall
  \/ \E t \in 1..Len(tasks) :
       \/ GetIssueFail(t)
       \/ GetIssueExit(t)
       \/ ReferencedIssuesSettled(t)
  \/ CreateIssueInfoReturn

SpecRedact == InitRedact /\ [][NextRedact]_vars

\* ------------------------------------------------------------ planning spec
\* The answers of the LLM: sections with the headings of the prompts, each
\* heading followed by a blank line and its content.
SectionContent(heading) ==
  CASE heading = HEADING_OF_FILE_PATHS_TO_BE_MODIFIED ->
         <<"-", " ", Backtick, "a", Backtick, "\n", "-", " ", "b">>
    [] heading = HEADING_OF_FILE_PATHS_TO_BE_REFERRED -> <<"-", " ", Backtick, "r", Backtick>>
    [] heading = HEADING_OF_PLAN -> <<"1", ".", " ", "d", "o">>
    [] heading = HEADING_OF_COMMIT_MESSAGE -> <<"f", "i", "x", ":", " ", "x">>

RECURSIVE Sections(_)
Sections(headings) ==
  IF headings = <<>> THEN <<>>
  ELSE Head(headings) \o <<"\n", "\n">> \o SectionContent(Head(headings)) \o <<"\n">>
       \o (IF Len(headings) > 1 THEN <<"\n">> ELSE <<>>) \o Sections(Tail(headings))

\* The answer with the given sections, inside a ```md block when fenced.
Response(headings, fenced) ==
  IF fenced
  THEN <<Backtick, Backtick, Backtick, "m", "d", "\n">> \o Sections(headings)
       \o <<Backtick, Backtick, Backtick>>
  ELSE Sections(headings)

Headings ==
  {HEADING_OF_FILE_PATHS_TO_BE_MODIFIED, HEADING_OF_FILE_PATHS_TO_BE_REFERRED,
   HEADING_OF_PLAN, HEADING_OF_COMMIT_MESSAGE}

\* The sequences of at most n distinct headings from hs.
HeadingOrders(hs, n) ==
  UNION {{o \in [1..k -> hs] : \A i, j \in 1..k : i /= j => o[i] /= o[j]} : k \in 0..n}

\* Planning models: one of a provider of getModelInstance, one of ollama,
\* and those callLlmApi refuses: no "/", a provider it does not know, ollama
\* without a model name.
AskedModels == {<<"o", "p", "e", "n", "a", "i", "/", "g", "p", "t", "-", "4", "o">>, <<"o", "l", "l", "a", "m", "a", "/", "m">>}

RefusedModels == {<<"m", "o", "d", "e", "l">>, <<"f", "o", "o", "/", "b", "a", "r">>, <<"o", "l", "l", "a", "m", "a", "/">>}

PlanningOptions(model, twoStage) ==
  [DefaultOptions EXCEPT !.planningModel = Some(model), !.twoStagePlanning = twoStage]

\* The working directory holding each of the paths of `paths` as the kind
\* says.
WorkingDirectory(paths, kind) == [p \in paths |-> kind[p]]

\* The working directories of the planning: b is a file; a and r are each
\* absent, a file or a directory.
PlanFileSystems ==
  {WorkingDirectory({<<"a">>, <<"b">>, <<"r">>},
                    [p \in {<<"a">>, <<"b">>, <<"r">>} |->
                       IF p = <<"a">> THEN ka ELSE IF p = <<"r">> THEN kr ELSE "file"]) :
     ka \in PathKinds, kr \in PathKinds}

\* The working directory in which a, b and r are files.
ListedFiles == [p \in {<<"a">>, <<"b">>, <<"r">>} |-> "file"]

\* The working directory holding the files a, b and r, the directory d and
\* the file d/g.
FilesAndDirectory ==
  [p \in {<<"a">>, <<"b">>, <<"r">>, <<"d">>, <<"d", "/", "g">>} |->
     IF p = <<"d">> THEN "directory" ELSE "file"]

\* Paths that name a directory of FilesAndDirectory or above it.
DirectorySpellings ==
  {<<".">>, <<"/">>, <<".", ".">>, <<".", "/">>, <<"/", "/">>, <<"/", ".">>,
   <<".", ".", "/">>, <<"d">>, <<"d", "/">>, <<".", "/", "d">>, <<"d", "/", ".">>}

\* Paths that name a file of FilesAndDirectory by another spelling, or
\* nothing: r/ and r/. go through a file, x/../r through a missing entry.
OtherSpellings ==
  {<<".", "/", "r">>, <<"d", "/", "g">>, <<"d", "/", ".", ".", "/", "r">>,
   <<"r", "/">>, <<"r", "/", ".">>, <<"x", "/", ".", ".", "/", "r">>, <<"x">>}

\* The two paths a first answer lists: a directory to be modified, or the
\* file a to be modified and any of the spellings to be referred.
ListedSpellings ==
  {<<modified, <<"r">>>> : modified \in DirectorySpellings}
  \cup {<<<<"a">>, referred>> : referred \in DirectorySpellings \cup OtherSpellings}

\* A first answer of two-stage planning that lists `modified` to be
\* modified and `referred` to be referred, one path each.
FileListsResponse(modified, referred) ==
  HEADING_OF_FILE_PATHS_TO_BE_MODIFIED \o <<"\n", "\n", "-", " ">> \o modified
  \o <<"\n", "\n">> \o HEADING_OF_FILE_PATHS_TO_BE_REFERRED
  \o <<"\n", "\n", "-", " ", Backtick>> \o referred \o <<Backtick, "\n">>

\* planCodeChanges as main calls it at lines 418-428: for every answer of at
\* most MaxSections sections to a model that is asked, in two-stage planning
\* in every working directory of PlanFileSystems; for the first answers
\* that list a path of ListedSpellings; for the models callLlmApi refuses;
\* and without a planning model (undefined or '').
InitPlan ==
  /\ \/ /\ options = DefaultOptions
        /\ llm = NoResponses
        /\ files = NoFiles
     \/ \E model \in RefusedModels \cup {<<>>}, twoStage \in BOOLEAN :
          /\ options = PlanningOptions(model, twoStage)
          /\ llm = NoResponses
          /\ files = NoFiles
     \/ \E first \in HeadingOrders(Headings, MaxSections), fenced \in BOOLEAN,
           model \in AskedModels :
          \/ /\ options = PlanningOptions(model, FALSE)
             /\ llm = <<Response(first, fenced)>>
             /\ files = ListedFiles
          \/ /\ options = PlanningOptions(model, TRUE)
             /\ \E second \in HeadingOrders({HEADING_OF_PLAN, HEADING_OF_COMMIT_MESSAGE}, 2) :
                  llm = <<Response(first, fenced), Response(second, TRUE)>>
             /\ files \in PlanFileSystems
     \/ \E model \in AskedModels, listed \in ListedSpellings :
          /\ options = PlanningOptions(model, TRUE)
          /\ llm = <<FileListsResponse(listed[1], listed[2]), Response(HeadersOfPlan, TRUE)>>
          /\ files = FilesAndDirectory
  /\ issues = NoIssues
  /\ IssueIdle
  /\ PlanningIdle
  /\ MainIdle
  /\ NoCall
  /\ pc = "planCodeChanges"
  /\ test = TestLocals

NextPlan == PlanCodeChangesCall \/ RepomixExit \/ LlmFirstExit \/ LlmSecondExit

SpecPlan == InitPlan /\ [][NextPlan]_vars

\* ------------------------------------------------------------ the whole run
\* The hosts of a whole run: issue 1 without references or with the
\* references of IssueText(1, 4), the other issues without; one of the first
\* two items possibly unavailable; issue 1 an issue, a pull request whose
\* diff, threads and reviews cannot be fetched, or one with all three.
MainHosts ==
  {Host([n \in 1..NumIssues |-> IF n = 1 THEN k ELSE 1], failing, pulls) :
     k \in {1, 4}, failing \in 0..2, pulls \in {{}, {1}}}
  \cup {AsPullRequest(Host([n \in 1..NumIssues |-> IF n = 1 THEN k ELSE 1], 0, {1}), 1) :
          k \in {1, 4}}

\* The planning of a whole run: no planning model (undefined or ''), one
\* callLlmApi refuses, or one that is asked and answers in the order of the
\* prompts or in the order planCodeChanges extracts them, the listed paths
\* being files; and two-stage planning where the path r is a directory.
MainPlanning ==
  {[model |-> model, twoStage |-> FALSE, llm |-> NoResponses, files |-> NoFiles] :
     model \in {None, Some(<<>>), Some(<<"m", "o", "d", "e", "l">>)}}
  \cup {[model |-> Some(<<"o", "p", "e", "n", "a", "i", "/", "g", "p", "t", "-", "4", "o">>),
          twoStage |-> FALSE, llm |-> <<Response(order, TRUE)>>, files |-> ListedFiles] :
          order \in {PromptForSelectingFilesAndPlanningCodeChanges, HeadersOfSingleStage}}
  \cup {[model |-> Some(<<"o", "p", "e", "n", "a", "i", "/", "g", "p", "t", "-", "4", "o">>),
          twoStage |-> TRUE,
          llm |-> <<Response(PromptForSelectingFiles, TRUE), Response(order, TRUE)>>,
          files |-> ListedFiles] :
          order \in {PromptForPlanningCodeChanges, HeadersOfPlan}}
  \cup {[model |-> Some(<<"o", "p", "e", "n", "a", "i", "/", "g", "p", "t", "-", "4", "o">>),
          twoStage |-> TRUE,
          llm |-> <<Response(PromptForSelectingFiles, TRUE), Response(HeadersOfPlan, TRUE)>>,
          files |-> [ListedFiles EXCEPT ![<<"r">>] = "directory"]]}

\* The test settings of a whole run: no test command, or one with no, one or
\* two attempts.
MainTesting ==
  {[testCommand |-> None, maxTestAttempts |-> DefaultOptions.maxTestAttempts]}
  \cup {[testCommand |-> Some(<<"t">>), maxTestAttempts |-> Num(n)] : n \in 0..2}

InitMain ==
  /\ \E dryRun \in BOOLEAN, noBranch \in BOOLEAN, p \in MainPlanning, t \in MainTesting :
       /\ options = [DefaultOptions EXCEPT
            !.dryRun = dryRun, !.noBranch = noBranch, !.planningModel = p.model,
            !.twoStagePlanning = p.twoStage, !.testCommand = t.testCommand,
            !.maxTestAttempts = t.maxTestAttempts]
       /\ llm = p.llm
       /\ files = p.files
  /\ issues \in MainHosts
  /\ IssueIdle
  /\ PlanningIdle
  /\ MainIdle
  /\ NoCall
  /\ pc = "start"
  /\ test = TestLocals

NextMain ==
  \/ MainStart
  \/ GetBaseBranch
  \/ CreateIssueInfoCall
  \/ \E t \in 1..Len(tasks) :
       \/ GetIssueFail(t)
       \/ GetIssueExit(t)
       \/ PRDiffExit(t)
       \/ PRReviewThreadsExit(t)
       \/ PRReviewsExit(t)
       \/ ReferencedIssuesSettled(t)
  \/ CreateIssueInfoReturn
  \/ PlanCodeChangesCall
  \/ RepomixExit
  \/ LlmFirstExit
  \/ LlmSecondExit
  \/ SwitchBranch
  \/ ToolRun
  \/ ToolExit
  \/ SkipTest
  \/ TestAndFixCall
  \/ TestProcessExit
  \/ ToolFixExit
  \/ CommitChanges
  \/ Push
  \/ CreatePullRequest

SpecMain == InitMain /\ [][NextMain]_vars

\* ----------------------------------------------------- header-block spec
\* extractHeaderContents returns for the call under study.
ExtractHeaderContentsReturn ==
  /\ pc = "call"
  /\ call.fn = "extractHeaderContents"
  /\ value = None
  /\ value' = Some(extractHeaderContents(call.text, call.headers))
  /\ UNCHANGED <<envVars, call, pc, effects, issueVars, planVars, test, main, host>>

\* The texts of at most n characters over the alphabet cs.
Texts(cs, n) == UNION {[1..k -> cs] : k \in 0..n}

\* The header lists drawn: none, one, two in either order, one twice, and a
\* header that starts with another.
HeaderLists ==
  {<<>>, <<<<"A">>>>, <<<<"A">>, <<"B">>>>, <<<<"B">>, <<"A">>>>, <<<<"A">>, <<"A">>>>,
   <<<<"A">>, <<"A", "B">>>>, <<<<"A", "B">>, <<"B">>>>}

InitHeader ==
  /\ \E text \in Texts({"\n", " ", "A", "B"}, MaxTextLen), headers \in HeaderLists :
       call = [fn |-> "extractHeaderContents", text |-> text, headers |-> headers]
  /\ value = None
  /\ options = DefaultOptions
  /\ issues = NoIssues
  /\ llm = NoResponses
  /\ files = NoFiles
  /\ IssueIdle
  /\ PlanningIdle
  /\ MainIdle
  /\ pc = "call"
  /\ test = TestLocals

NextHeader == ExtractHeaderContentsReturn

SpecHeader == InitHeader /\ [][NextHeader]_vars

\* ------------------------------------------------ header round-trip spec
\* The lists of header labels drawn: the six orders of A, B and AB (AB
\* starts with A), and three lists in which a label is repeated.
LabelLists ==
  LET A == <<"A">>
      B == <<"B">>
      AB == <<"A", "B">>
  IN {<<A, B, AB>>, <<A, AB, B>>, <<B, A, AB>>, <<B, AB, A>>, <<AB, A, B>>,
      <<AB, B, A>>, <<A, A, B>>, <<A, B, A>>, <<A, B, B>>}

\* The response built from three labels and three contents, as the test
\* 'should extract content between headers in correct order' builds it.
RoundTripText(labels, contents) ==
  <<"\n">> \o labels[1] \o <<"\n">> \o contents[1] \o
  <<"\n">> \o labels[2] \o <<"\n">> \o contents[2] \o
  <<"\n">> \o labels[3] \o <<"\n">> \o contents[3]

InitRoundTrip ==
  /\ \E labels \in LabelLists,
        contents \in [1..3 -> Texts({"\n", " ", "A"}, MaxContentLen)] :
       call = [fn |-> "extractHeaderContents",
               text |-> RoundTripText(labels, contents),
               headers |-> labels, contents |-> contents]
  /\ value = None
  /\ options = DefaultOptions
  /\ issues = NoIssues
  /\ llm = NoResponses
  /\ files = NoFiles
  /\ IssueIdle
  /\ PlanningIdle
  /\ MainIdle
  /\ pc = "call"
  /\ test = TestLocals

NextRoundTrip == ExtractHeaderContentsReturn

SpecRoundTrip == InitRoundTrip /\ [][NextRoundTrip]_vars

\* ------------------------------------------------------------ fence spec
\* findDistinctFence returns for the call under study.
FindDistinctFenceReturn ==
  /\ pc = "call"
  /\ call.fn = "findDistinctFence"
  /\ value = None
  /\ value' = Some(findDistinctFence(call.content, call.fenceChar))
  /\ UNCHANGED <<envVars, call, pc, effects, issueVars, planVars, test, main, host>>

\* The two fence characters of markdown.
FenceChars == {Backtick, "~"}

InitFence ==
  /\ \E content \in Texts(FenceChars \cup {"x"}, MaxFencedLen), fenceChar \in FenceChars :
       call = [fn |-> "findDistinctFence", content |-> content, fenceChar |-> fenceChar]
  /\ value = None
  /\ options = DefaultOptions
  /\ issues = NoIssues
  /\ llm = NoResponses
  /\ files = NoFiles
  /\ IssueIdle
  /\ PlanningIdle
  /\ MainIdle
  /\ pc = "call"
  /\ test = TestLocals

NextFence == FindDistinctFenceReturn

SpecFence == InitFence /\ [][NextFence]_vars

\* ------------------------------------------------------------- diff spec
\* processDiffContent returns for the call under study.
ProcessDiffContentReturn ==
  /\ pc = "call"
  /\ call.fn = "processDiffContent"
  /\ value = None
  /\ value' = Some(processDiffContent(call.diffContent))
  /\ UNCHANGED <<envVars, call, pc, effects, issueVars, planVars, test, main, host>>

\* The header lines of the diff of a file: diff --git, index, ---, +++.
FileHeader(path) ==
  DiffGitA \o path \o <<" ", "b", "/">> \o path \o
  <<"\n", "i", "n", "d", "e", "x", " ", "1", ".", ".", "2">> \o
  <<"\n", "-", "-", "-", " ", "a", "/">> \o path \o
  <<"\n", "+", "+", "+", " ", "b", "/">> \o path

\* The start of the hunk of a file section, up to the + of its added line.
HunkStart == <<"\n", "@", "@", " ", "-", "1", " ", "+", "1", " ", "@", "@", "\n", "+">>

\* The section of a file in a diff: the header lines, and a hunk that adds
\* one line of `added` characters.
FileSection(path, added) ==
  RunsConcat(Runs(FileHeader(path) \o HunkStart),
             <<[c |-> "x", n |-> added], [c |-> "\n", n |-> 1]>>)

\* The length of a file section without its added characters.
SectionOverhead(path) == Len(FileHeader(path)) + Len(HunkStart) + 1

SourcePath == <<"s", "r", "c", "/", "s", ".", "t", "s">>
DistPath == <<"d", "i", "s", "t", "/", "i", ".", "j", "s">>
MinPath == <<"a", ".", "m", "i", "n", ".", "j", "s">>

\* The kinds of file sections drawn: a source file whose section is
\* MAX_FILE_DIFF_SIZE long; one whose section is one character longer; a
\* bundle under dist/ twice as long; a short minified file.
SectionKinds == 1..4

SourceAtCap == FileSection(SourcePath, MAX_FILE_DIFF_SIZE - SectionOverhead(SourcePath))
SourceOverCap == FileSection(SourcePath, MAX_FILE_DIFF_SIZE + 1 - SectionOverhead(SourcePath))
DistBundle == FileSection(DistPath, 2 * MAX_FILE_DIFF_SIZE)
MinShort == FileSection(MinPath, MAX_FILE_DIFF_SIZE \div 100)

KindSection(kind) ==
  CASE kind = 1 -> SourceAtCap
    [] kind = 2 -> SourceOverCap
    [] kind = 3 -> DistBundle
    [] kind = 4 -> MinShort

\* The encoded header lines of the sections of the kinds.
SourceHeader == Runs(FileHeader(SourcePath))
DistHeader == Runs(FileHeader(DistPath))
MinHeader == Runs(FileHeader(MinPath))

KindHeader(kind) ==
  CASE kind \in {1, 2} -> SourceHeader
    [] kind = 3 -> DistHeader
    [] kind = 4 -> MinHeader

\* The diff of files of the given kinds.
DiffOf(kinds) == JoinSections([i \in 1..Len(kinds) |-> KindSection(kinds[i])])

InitDiff ==
  /\ \E k \in 1..MaxDiffSections : \E kinds \in [1..k -> SectionKinds] :
       call = [fn |-> "processDiffContent", kinds |-> kinds, diffContent |-> DiffOf(kinds)]
  /\ value = None
  /\ options = DefaultOptions
  /\ issues = NoIssues
  /\ llm = NoResponses
  /\ files = NoFiles
  /\ IssueIdle
  /\ PlanningIdle
  /\ MainIdle
  /\ pc = "call"
  /\ test = TestLocals

NextDiff == ProcessDiffContentReturn

SpecDiff == InitDiff /\ [][NextDiff]_vars

\* ------------------------------------------------------------- body spec
\* The plan and the log of the body are computed for the call under study.
PrBodyReturn ==
  /\ pc = "call"
  /\ call.fn = "prBody"
  /\ value = None
  /\ value' = Some([plan |-> BetweenFences(PlanSection(call.planText, call.toolResponse)),
                    log |-> BetweenFences(LogSection(call.planText, call.toolResponse))])
  /\ UNCHANGED <<envVars, call, pc, effects, issueVars, planVars, test, main, host>>

\* The lengths of the texts drawn are multiples of LengthUnit.
LengthUnit == MAX_PR_BODY_LENGTH \div 6

\* A text of n times the character c.
TextOf(c, n) == [i \in 1..n |-> c]

InitBody ==
  /\ \E planUnits \in 0..MaxBodyUnits, responseUnits \in 0..MaxBodyUnits :
       call = [fn |-> "prBody",
               planText |-> TextOf("P", planUnits * LengthUnit),
               toolResponse |-> TextOf("T", responseUnits * LengthUnit)]
  /\ value = None
  /\ options = DefaultOptions
  /\ issues = NoIssues
  /\ llm = NoResponses
  /\ files = NoFiles
  /\ IssueIdle
  /\ PlanningIdle
  /\ MainIdle
  /\ pc = "call"
  /\ test = TestLocals

NextBody == PrBodyReturn

SpecBody == InitBody /\ [][NextBody]_vars

\* ------------------------------------------------- claims: the test/fix loop
\* Line 122: a test command is configured when it parses to a program.
CommandConfigured == parseCommandLineArgs(OrEmpty(options.testCommand)) /= <<>>

\* testAndFix has returned a TestResult to main.
TestReturned == pc = "afterTest" /\ test.returned

\* Every run of the test command so far exited nonzero.
EveryRunFailed == \A i \in 1..Len(effects) : effects[i].op = "testExit" => effects[i].arg /= 0

\* The calls of N failing rounds: N runs of the test command, each followed by
\* its exit and, except the last, by the fix of that attempt.
RECURSIVE FailingRounds(_, _)
FailingRounds(i, n) ==
  IF i > n THEN <<>>
  ELSE <<"test", "testExit">> \o (IF i < n THEN <<"fix">> ELSE <<>>) \o FailingRounds(i + 1, n)

EffectOps == [i \in 1..Len(effects) |-> effects[i].op]

\* The output of the coding tool in a fix attempt, as the runs draw it.
FixOutputs == {<<>>, <<"o", "k", "\n">>}

\* The text begins with the literal.
StartsWith(text, literal) ==
  Len(text) >= Len(literal) /\ SubSeq(text, 1, Len(literal)) = literal

\* The number of sections in a fixResult: the places where the heading of a
\* fix attempt stands (the section of an attempt without output is the
\* heading alone).
FixSectionsIn(fixResult) ==
  Cardinality({i \in 1..Len(fixResult) :
     StartsWith(SubSeq(fixResult, i, Len(fixResult)), FixSection(options, <<>>))})

\* The text is made of sections of fix attempts, one after the other.
RECURSIVE MadeOfFixSections(_)
MadeOfFixSections(fixResult) ==
  \/ fixResult = <<>>
  \/ \E assistantResult \in FixOutputs :
       LET section == FixSection(options, assistantResult) IN
       /\ StartsWith(fixResult, section)
       /\ MadeOfFixSections(SubSeq(fixResult, Len(section) + 1, Len(fixResult)))

\* C1: with maxTestAttempts = N >= 1 and a configured test command whose every
\* run exits nonzero, testAndFix runs the test command exactly N times, runs
\* the coding-tool fix exactly N-1 times (after each failed run but the last)
\* and returns success = false with a non-empty error.
C1_FailingLoopCounts ==
  (/\ TestReturned
   /\ CommandConfigured
   /\ ~options.maxTestAttempts.nan
   /\ options.maxTestAttempts.val >= 1
   /\ EveryRunFailed)
  => LET N == options.maxTestAttempts.val IN
     /\ Len(EffectsOf("test")) = N
     /\ Len(EffectsOf("fix")) = N - 1
     /\ EffectOps = FailingRounds(1, N)
     /\ FixSectionsIn(test.fixResult) = N - 1
     /\ ~test.success
     /\ IsSome(test.error)
     /\ test.error[1] /= <<>>

\* C1 witness: three attempts, all failed, two fixes, and the loop returned.
C1_Witness ==
  /\ TestReturned
  /\ options.maxTestAttempts = Num(3)
  /\ EveryRunFailed
  /\ Len(EffectsOf("testExit")) = 3
  /\ Len(EffectsOf("fix")) = 2
  /\ ~test.success

\* C2: for a configured test command, whatever maxTestAttempts is (0, negative
\* and NaN included) and however the runs exit, testAndFix returns either
\* success = true without an error, or success = false with a non-empty error
\* and the attempt counter equal to maxTestAttempts.
C2_TwoTerminalStates ==
  (TestReturned /\ CommandConfigured)
  => \/ test.success /\ test.error = None
     \/ /\ ~test.success
        /\ IsSome(test.error)
        /\ test.error[1] /= <<>>
        /\ options.maxTestAttempts = Num(test.attempts)

\* --------------------------------------------------- claims: the issue tree
Range(seq) == {seq[i] : i \in 1..Len(seq)}

NoDuplicates(seq) == \A i, j \in 1..Len(seq) : i /= j => seq[i] /= seq[j]

\* The issue numbers of the nodes of a tree, the root first.
RECURSIVE NodeTitles(_)
RECURSIVE NodeTitlesOfAll(_)
NodeTitles(node) == <<node.title>> \o NodeTitlesOfAll(node.referenced_issues)
NodeTitlesOfAll(nodes) ==
  IF nodes = <<>> THEN <<>> ELSE NodeTitles(Head(nodes)) \o NodeTitlesOfAll(Tail(nodes))

\* The references of issue n as the code host holds it.
ReferencesOf(n) == extractIssueReferences(AllText(issues[n]))

\* createIssueInfo has returned (a tree, or its failure).
CreateIssueInfoReturned == pc \in {"failed", "planCodeChanges"}

\* C3: under every interleaving of the referenced fetches, an issue number is
\* checked and marked in one step, so getIssue is called at most once per
\* issue number, no two calls of fetchIssueData work on the same number, and
\* no number is the title of two nodes of the returned tree.
C3_FetchedAtMostOnce ==
  /\ \A n \in DOMAIN apiCalls : apiCalls[n] <= 1
  /\ \A t, u \in 1..Len(tasks) : t /= u => tasks[t].num /= tasks[u].num
  /\ \A t \in 1..Len(tasks) : tasks[t].num \in visited
  /\ IsSome(issueInfo) => NoDuplicates(NodeTitles(issueInfo[1]))

\* C3 witness: two issues of the returned tree reference the same third issue,
\* which was fetched once.
C3_Witness ==
  /\ IsSome(issueInfo)
  /\ \E t, u \in 1..Len(tasks) : \E n \in DOMAIN apiCalls :
       /\ t /= u
       /\ IsSome(tasks[t].result) /\ IsSome(tasks[u].result)
       /\ n \in Range(tasks[t].refs) \cap Range(tasks[u].refs)
       /\ n \notin {tasks[t].num, tasks[u].num}
       /\ apiCalls[n] = 1
       /\ n \in Range(NodeTitles(issueInfo[1]))

\* Issue 1 references only issue 2, which references only issue 1.
CycleHost ==
  /\ IssueAvailable(1) /\ IssueAvailable(2)
  /\ ReferencesOf(1) = <<2>>
  /\ ReferencesOf(2) = <<1>>

\* How far a call of fetchIssueData has come.
StageRank(stage) ==
  CASE stage = "getIssue" -> 1 [] stage = "diff" -> 2 [] stage = "threads" -> 3
    [] stage = "reviews" -> 4 [] stage = "children" -> 5 [] stage = "done" -> 6

RECURSIVE SumOfRanks(_)
SumOfRanks(ts) == IF ts = <<>> THEN 0 ELSE StageRank(Head(ts).pc) + SumOfRanks(Tail(ts))

\* The progress of createIssueInfo: it grows with every step and is bounded
\* by the number of issue numbers the texts of the host can name.
IssueProgress == SumOfRanks(tasks) + (IF CreateIssueInfoReturned THEN 1 ELSE 0)

\* Some call of fetchIssueData can take its next step: a request it awaits
\* can be answered, or all the calls it awaits have returned; or
\* createIssueInfo itself can be entered or can return.
IssueStepPossible ==
  \/ pc = "createIssueInfo"
  \/ /\ pc = "issueWait"
     /\ \/ tasks[1].pc = "done"
        \/ \E t \in 1..Len(tasks) :
             \/ tasks[t].pc \in {"getIssue", "diff", "threads", "reviews"}
             \/ /\ tasks[t].pc = "children"
                /\ \A c \in Range(tasks[t].children) : c /= 0 => tasks[c].pc = "done"

\* C4: given that every fetch is answered, createIssueInfo returns for every
\* reference graph (cycles and self-references included): until it returns a
\* step is always possible, every step advances a bounded measure, and at
\* most one call is made per issue number.  For the cycle 1 -> 2 -> 1 it
\* returns node 1 with the single referenced node 2, which has no
\* referenced_issues.
C4_TerminatesOnCycles ==
  /\ [](CreateIssueInfoReturned \/ IssueStepPossible)
  /\ [][IssueProgress' > IssueProgress]_vars
  /\ [](Len(tasks) <= Cardinality(visited) /\ visited \subseteq 1..(NumIssues + 2))
  /\ [](CycleHost /\ CreateIssueInfoReturned =>
         /\ IsSome(issueInfo)
         /\ issueInfo[1].title = 1
         /\ Len(issueInfo[1].referenced_issues) = 1
         /\ issueInfo[1].referenced_issues[1].title = 2
         /\ Len(issueInfo[1].referenced_issues[1].referenced_issues) = 0)

\* C4 witness: createIssueInfo returned on the cycle 1 -> 2 -> 1.
C4_Witness == CycleHost /\ pc = "planCodeChanges" /\ Len(tasks) = 2

\* The position of the first occurrence of n in tokens.
FirstIndex(tokens, n) ==
  CHOOSE i \in 1..Len(tokens) : tokens[i] = n /\ \A j \in 1..(i - 1) : tokens[j] /= n

\* The numbers among the references of task t whose fetch returned a node.
YieldingReferences(t) ==
  {tasks[c].num : c \in {d \in Range(tasks[t].children) : d /= 0 /\ IsSome(tasks[d].result)}}

\* C5: the referenced_issues of every node are in the order in which their
\* reference tokens first appear in the issue's body followed by its
\* comments, the references that gave no node left out, whatever the order
\* in which the fetches completed.
C5_FirstAppearanceOrder ==
  \A t \in 1..Len(tasks) :
    (tasks[t].pc = "done" /\ IsSome(tasks[t].result)) =>
      LET tokens == MatchReferences(AllText(issues[tasks[t].num]), 1)
          nodes == tasks[t].result[1].referenced_issues
          titles == [i \in 1..Len(nodes) |-> nodes[i].title]
      IN /\ NoDuplicates(titles)
         /\ Range(titles) \subseteq Range(tokens)
         /\ Range(titles) = YieldingReferences(t)
         /\ \A i, j \in 1..Len(titles) :
              i < j => FirstIndex(tokens, titles[i]) < FirstIndex(tokens, titles[j])

\* C5 witness: issue 1 names 3 before 2 and names both again, in the other
\* order, in a comment; its node lists node 3 before node 2.
C5_Witness ==
  /\ IsSome(issueInfo)
  /\ MatchReferences(AllText(issues[1]), 1) = <<3, 2, 2, 3, 1>>
  /\ Len(issueInfo[1].referenced_issues) = 2
  /\ issueInfo[1].referenced_issues[1].title = 3
  /\ issueInfo[1].referenced_issues[2].title = 2

\* ------------------------------------------------- claims: the whole run
\* The operations of the effects so far.
EffectOpsSoFar == {effects[i].op : i \in 1..Len(effects)}

\* The numbers task t started a fetch for at line 183, in order.
RECURSIVE StartedNumbers(_)
StartedNumbers(children) ==
  IF children = <<>> THEN <<>>
  ELSE (IF Head(children) = 0 THEN <<>> ELSE <<tasks[Head(children)].num>>)
       \o StartedNumbers(Tail(children))

TitlesOf(nodes) == [i \in 1..Len(nodes) |-> nodes[i].title]

\* C6: when the primary issue or pull request cannot be fetched,
\* createIssueInfo fails and main makes no branch, no run of the coding tool,
\* no commit, no push and no pull request.  When a referenced issue cannot
\* be fetched, that reference alone is left out: the node of the parent has
\* its own author, title, description and comments and the nodes of its
\* other references, in order.
C6_MissingSubjects ==
  /\ ~IssueAvailable(options.issueNumber) =>
       /\ pc \in {"start", "getBaseBranch", "exited", "createIssueInfo", "issueWait", "failed"}
       /\ issueInfo = None
       /\ EffectOpsSoFar \subseteq {"getBaseBranch", "createIssueInfo"}
       /\ host = <<>>
  /\ pc = "failed" => ~IssueAvailable(options.issueNumber)
  /\ \A t \in 1..Len(tasks) :
       (tasks[t].pc = "done" /\ IssueAvailable(tasks[t].num)) =>
         /\ IsSome(tasks[t].result)
         /\ LET node == tasks[t].result[1]
                issue == issues[tasks[t].num]
            IN /\ node.author = issue.author
               /\ node.title = issue.title
               /\ node.description = normalizeNewLines(ProcessedBody(issue))
               /\ \A i \in 1..Len(issue.comments) :
                    tasks[t].commentsWithDate[i] = PlainComment(issue.comments[i])
               /\ node.comments = FinalComments(tasks[t].commentsWithDate)
               /\ TitlesOf(node.referenced_issues)
                    = SelectSeq(StartedNumbers(tasks[t].children), IssueAvailable)

\* C6 witness: issue 1 names 3, 2 and itself; issue 2 cannot be fetched; the
\* run went on to its end with node 1 holding its non-empty comment and
\* node 3.
C6_Witness ==
  /\ pc = "done"
  /\ ~IssueAvailable(2)
  /\ tasks[1].refs = <<3, 2, 1>>
  /\ IsSome(issueInfo)
  /\ TitlesOf(issueInfo[1].referenced_issues) = <<3>>
  /\ Len(issueInfo[1].comments) = 1

\* A run that makes a branch and reached its end.
BranchRunDone == pc = "done" /\ ~options.dryRun /\ ~options.noBranch

\* C7: a failure of the coding tool or of the tests does not abort the run
\* (outside dry-run and no-branch): the changes are committed and pushed and
\* the pull request is created, on the code host as a draft; when the tool
\* and the tests both succeed it is created as a non-draft.
C7_DraftOnFailure ==
  BranchRunDone =>
    /\ {"commit", "pushBranch", "createPullRequest"} \subseteq EffectOpsSoFar
    /\ Len(host) = 1
    /\ host[1].draft = (~main.toolSuccess \/ ~main.testSuccess)

\* ------------------------------------------------------ claims: the planning
\* planCodeChanges has returned a ResolutionPlan to main.
PlanReturned == pc = "branch" /\ Truthy(options.planningModel) /\ IsSome(resolutionPlan)

\* Every answer of the LLM holds the sections its prompt asks for, in the
\* order of the prompt's template, inside the ```md block the prompt shows.
AnswersFollowPrompts ==
  IF options.twoStagePlanning
  THEN /\ llm[1] = Response(PromptForSelectingFiles, TRUE)
       /\ llm[2] = Response(PromptForPlanningCodeChanges, TRUE)
  ELSE llm[1] = Response(PromptForSelectingFilesAndPlanningCodeChanges, TRUE)

\* The paths listed under File Paths to be Modified in the answers drawn.
ListedPathsToBeModified == <<<<"a">>, <<"b">>>>

\* C8: in both planning modes, when every answer of the LLM holds the
\* requested sections in the order of the prompt's template, planCodeChanges
\* returns a plan and a commit message that are defined and the file paths
\* listed under File Paths to be Modified.
C8_PromptOrderGivesPlan ==
  (pc = "branch" /\ Truthy(options.planningModel) /\ AnswersFollowPrompts)
  => /\ IsSome(resolutionPlan)
     /\ IsSome(resolutionPlan[1].plan)
     /\ IsSome(resolutionPlan[1].commitMessage)
     /\ resolutionPlan[1].filePaths = ListedPathsToBeModified

\* The heading occurs at the start of a line of the answer.
HasHeading(text, heading) == IndexOf(<<"\n">> \o text, <<"\n">> \o heading) /= 0 - 1

\* The first answer of two-stage planning gives both file lists.
FirstAnswerParsed == IsSome(ParseFileLists(llm[1]))

\* The number of calls of the LLM so far.
LlmCalls == Len(EffectsOf("callLlmApi"))

\* What planCodeChanges returns for answers that do not parse.  In two-stage
\* planning, when the second answer lacks the Commit Message or the plan
\* heading, plan and commitMessage are undefined and filePaths is the
\* to-be-modified list of the first answer; when the first answer (or the
\* only answer of single-stage planning) fails to parse, filePaths is empty,
\* there is no plan, and no further call of the LLM is made.
DegradedPlans ==
  PlanReturned =>
    LET rp == resolutionPlan[1] IN
    /\ (/\ options.twoStagePlanning
        /\ FirstAnswerParsed
        /\ \E h \in {HEADING_OF_COMMIT_MESSAGE, HEADING_OF_PLAN} :
             ~HasHeading(trimCodeBlockFences(llm[2]), h))
       => /\ rp.plan = None
          /\ rp.commitMessage = None
          /\ rp.filePaths = ParseFileLists(llm[1])[1].filePathsToBeModified
          /\ LlmCalls = 2
    /\ (options.twoStagePlanning /\ ~FirstAnswerParsed)
       => rp = ResolutionPlan(None, None, <<>>) /\ LlmCalls = 1
    /\ (/\ ~options.twoStagePlanning
        /\ extractHeaderContents(trimCodeBlockFences(llm[1]), HeadersOfSingleStage) = None)
       => rp = ResolutionPlan(None, None, <<>>) /\ LlmCalls = 1

\* planCodeChanges ended with an error it raised itself.
PlanCodeChangesThrew == pc = "thrown"

\* C9: planCodeChanges never raises an error because of what the LLM
\* answered: once called, it returns a ResolutionPlan to main whatever the
\* answers are, and for answers that do not parse the plan it returns is the
\* degraded one of DegradedPlans.
C9_MalformedAnswers ==
  /\ ~PlanCodeChangesThrew
  /\ (pc = "branch" /\ Truthy(options.planningModel)) => IsSome(resolutionPlan)
  /\ DegradedPlans

\* ------------------------------------------- claims: the header extraction
\* The positions of text at which the header occurs at the start of a line.
LineStartOccurrences(text, header) ==
  {i \in 1..Len(text) :
     /\ i = 1 \/ text[i - 1] = "\n"
     /\ i + Len(header) - 1 <= Len(text)
     /\ SubSeq(text, i, i + Len(header) - 1) = header}

Minimum(S) == CHOOSE m \in S : \A n \in S : m <= n

\* Every header occurs at the start of a line and the first such occurrences
\* are strictly increasing in the order of the headers.
HeadersInOrder(text, headers) ==
  /\ \A i \in 1..Len(headers) : LineStartOccurrences(text, headers[i]) /= {}
  /\ \A i \in 2..Len(headers) :
       Minimum(LineStartOccurrences(text, headers[i - 1]))
         < Minimum(LineStartOccurrences(text, headers[i]))

\* C10: extractHeaderContents is all or nothing: it returns undefined when a
\* header has no occurrence at the start of a line or when the first such
\* occurrences are not strictly increasing in the order of the headers;
\* otherwise it returns one string per header (none for no header).
C10_AllOrNothing ==
  (call.fn = "extractHeaderContents" /\ IsSome(value)) =>
    IF HeadersInOrder(call.text, call.headers)
    THEN IsSome(value[1]) /\ Len(value[1][1]) = Len(call.headers)
    ELSE value[1] = None

\* C10 witness: both headers occur at the start of a line, B before A, and
\* the extraction of <<A, B>> returned undefined.
C10_Witness ==
  /\ call.fn = "extractHeaderContents"
  /\ call.headers = <<<<"A">>, <<"B">>>>
  /\ call.text = <<"B", "\n", "A">>
  /\ value = Some(None)

\* ------------------------------------- claims: the header round trip
\* The content holds no line that starts with one of the labels.
NoLabelLine(content, labels) ==
  \A i \in 1..Len(labels) : LineStartOccurrences(content, labels[i]) = {}

\* The prefix relation on strings.
IsPrefix(p, s) == Len(p) <= Len(s) /\ SubSeq(s, 1, Len(p)) = p

\* No label starts an earlier label (an equal label included).
NoLabelStartsEarlier(labels) ==
  \A i \in 1..Len(labels), j \in 1..Len(labels) :
    i < j => ~IsPrefix(labels[j], labels[i])

\* The round trip is set up and the extraction has returned.
RoundTripReturned ==
  /\ call.fn = "extractHeaderContents"
  /\ IsSome(value)
  /\ \A i \in 1..3 : NoLabelLine(call.contents[i], call.headers)

TrimmedContents == [i \in 1..3 |-> Trim(call.contents[i])]

\* C11 as stated: for all labels A, B, C and contents c1, c2, c3 holding no
\* line that starts with a label, extracting <<A, B, C>> from
\* "\nA\n" + c1 + "\nB\n" + c2 + "\nC\n" + c3 yields the trimmed contents.
C11_RoundTripAnyLabels ==
  RoundTripReturned => value[1] = Some(TrimmedContents)

\* C11: the round trip yields the trimmed contents exactly when no label
\* starts an earlier label of the list; when one does, the first occurrence
\* of the later label is the line of the earlier one and the extraction
\* returns undefined.
C11_RoundTrip ==
  RoundTripReturned =>
    IF NoLabelStartsEarlier(call.headers)
    THEN value[1] = Some(TrimmedContents)
    ELSE value[1] = None

\* C11 witness: the labels A, AB, B around contents with surrounding white
\* space, one of them holding a label inside a line, returned trimmed.
C11_Witness ==
  /\ RoundTripReturned
  /\ call.headers = <<<<"A">>, <<"A", "B">>, <<"B">>>>
  /\ call.contents = <<<<" ", "A">>, <<"\n">>, <<"\n", " ">>>>
  /\ value[1] = Some(<<<<"A">>, <<>>, <<>>>>)

\* ------------------------------------------------ claims: the fence
\* The lengths k >= 1 of the runs of the character c in the content.
RunLengths(content, c) ==
  {k \in 1..Len(content) :
     \E i \in 1..(Len(content) - k + 1) : \A j \in i..(i + k - 1) : content[j] = c}

\* The length of the longest run of at least three, 0 when there is none.
LongestRun(content, c) ==
  LET long == {k \in RunLengths(content, c) : k >= 3}
  IN IF long = {} THEN 0 ELSE CHOOSE k \in long : \A m \in long : m <= k

\* The content with every character c replaced by the letter x.
Without(content, c) == [i \in 1..Len(content) |-> IF content[i] = c THEN "x" ELSE content[i]]

OtherFenceChar(c) == IF c = Backtick THEN "~" ELSE Backtick

FenceReturned == call.fn = "findDistinctFence" /\ IsSome(value)

\* C12: findDistinctFence returns a run of the fence character of length
\* max(3, L + 1), L being the length of the longest run of at least three of
\* that character in the content (0 when there is none); the fence is no
\* substring of the content, and it is the fence of the content in which the
\* other fence character is replaced by a letter.
C12_DistinctFence ==
  FenceReturned =>
    LET L == LongestRun(call.content, call.fenceChar)
        fence == value[1]
    IN /\ Len(fence) = (IF L + 1 > 3 THEN L + 1 ELSE 3)
       /\ \A i \in 1..Len(fence) : fence[i] = call.fenceChar
       /\ \A i \in 1..(Len(call.content) - Len(fence) + 1) :
            SubSeq(call.content, i, i + Len(fence) - 1) /= fence
       /\ fence = findDistinctFence(Without(call.content, OtherFenceChar(call.fenceChar)),
                                    call.fenceChar)

\* C12 witness: for a content with a run of three tildes, a backtick and a
\* run of four tildes the tilde fence is five tildes long.
C12_Witness ==
  /\ FenceReturned
  /\ call.fenceChar = "~"
  /\ call.content = <<"~", "~", "~", Backtick, "~", "~", "~", "~">>
  /\ value[1] = <<"~", "~", "~", "~", "~">>

\* --------------------------------------------- claims: the pull request
\* The comments of the unresolved threads, in the order of the threads.
RECURSIVE UnresolvedComments(_)
UnresolvedComments(reviewThreads) ==
  IF reviewThreads = <<>> THEN <<>>
  ELSE (IF Head(reviewThreads).isResolved THEN <<>> ELSE Head(reviewThreads).comments)
       \o UnresolvedComments(Tail(reviewThreads))

\* Item n is fetched as the pull request that is the primary subject.
IsRootPull(t) == issues[tasks[t].num].isPR /\ ~tasks[t].isReferenced

\* The entries of the three sources for the call t, with their dates: the
\* plain comments, the comments of the unresolved threads that have an
\* author, and the verdicts, as far as the host answers the requests.
PlainEntries(t) ==
  LET issue == issues[tasks[t].num] IN
  [i \in 1..Len(issue.comments) |-> PlainComment(issue.comments[i])]

ThreadEntries(t) ==
  LET issue == issues[tasks[t].num] IN
  IF IsRootPull(t) /\ issue.reviewThreads /= None
  THEN LET cs == SelectSeq(UnresolvedComments(issue.reviewThreads[1]),
                           LAMBDA c : c.author /= None)
       IN [i \in 1..Len(cs) |-> ReviewThreadComment(cs[i])]
  ELSE <<>>

VerdictEntries(t) ==
  LET issue == issues[tasks[t].num] IN
  IF IsRootPull(t) /\ issue.reviews /= None
  THEN [i \in 1..Len(issue.reviews[1]) |-> ReviewComment(issue.reviews[1][i])]
  ELSE <<>>

NonEmptyBodies(cs) == SelectSeq(cs, LAMBDA c : c.body /= <<>>)

\* No entry stands before one with an earlier date.
Ascending(cs) == \A i \in 1..Len(cs), j \in 1..Len(cs) : i < j => ~DateAfter(cs[i], cs[j])

\* C13 as stated: the comments of every returned node are the entries of the
\* plain comments, of the comments of the unresolved review threads and of
\* the review verdicts that have a body, in ascending order of their
\* creation dates whatever the order of the sources, without the dates.
C13_CommentsMerged ==
  \A t \in 1..Len(tasks) :
    tasks[t].result /= None =>
      \E cs \in Orderings(NonEmptyBodies(PlainEntries(t) \o ThreadEntries(t) \o VerdictEntries(t))) :
        /\ Ascending(cs)
        /\ tasks[t].result[1].comments = MapStripDate(cs)

\* The node carries data of a pull request: code changes, or a comment with
\* a code location, a code content or a review state.
CarriesPullData(node) ==
  \/ node.code_changes /= None
  \/ \E i \in 1..Len(node.comments) :
       \/ node.comments[i].codeLocation /= None
       \/ node.comments[i].codeContent /= None
       \/ node.comments[i].reviewState /= None

\* The nodes below a node, at every depth.
RECURSIVE Descendants(_)
RECURSIVE DescendantsOfAll(_)
Descendants(node) == DescendantsOfAll(node.referenced_issues)
DescendantsOfAll(nodes) ==
  IF nodes = <<>> THEN <<>>
  ELSE <<Head(nodes)>> \o Descendants(Head(nodes)) \o DescendantsOfAll(Tail(nodes))

\* C14: in the tree createIssueInfo returns, the root carries code changes
\* or comments with a code location, a code content or a review state only
\* when it is a pull request, and no referenced node at any depth carries
\* one of them, a referenced pull request included.
C14_PullDataOnRootOnly ==
  IsSome(issueInfo) =>
    /\ CarriesPullData(issueInfo[1]) => issues[options.issueNumber].isPR
    /\ \A i \in 1..Len(Descendants(issueInfo[1])) :
         ~CarriesPullData(Descendants(issueInfo[1])[i])

\* C14 witness: the primary pull request came back with its code changes,
\* a thread comment and a verdict, above the pull request 2 and, below
\* that, the pull request 3, for both of which the host has a diff, a
\* review thread and a review.
C14_Witness ==
  /\ IsSome(issueInfo)
  /\ issueInfo[1].code_changes /= None
  /\ \E i \in 1..Len(issueInfo[1].comments) : issueInfo[1].comments[i].codeLocation /= None
  /\ \E i \in 1..Len(issueInfo[1].comments) : issueInfo[1].comments[i].reviewState /= None
  /\ TitlesOf(Descendants(issueInfo[1])) = <<2, 3>>
  /\ \A n \in {2, 3} :
       /\ issues[n].isPR
       /\ issues[n].diff /= None
       /\ issues[n].reviewThreads /= None
       /\ issues[n].reviews /= None

\* The primary subject is a pull request the host answers getIssue for.
RootPullAvailable ==
  IssueAvailable(options.issueNumber) /\ issues[options.issueNumber].isPR

\* The requests of the three sub-fetches made so far, in order.
SubFetches ==
  SelectSeq(effects, LAMBDA e : e.op \in {"getPullRequestDiff", "getPullRequestReviewThreads",
                                          "getPullRequestReviews"})

\* Every entry of cs that has a body is among the comments, without date.
AllAmong(cs, comments) ==
  \A i \in 1..Len(cs) :
    cs[i].body /= <<>> => \E j \in 1..Len(comments) : comments[j] = StripDate(cs[i])

\* C15: when the primary subject is a pull request, createIssueInfo returns
\* its node whichever of the diff, review-thread and review requests fail:
\* the three requests are made in turn, the node has every plain comment
\* with a body, the code changes when the diff request succeeded with a
\* diff, the thread comments and the verdicts of the requests that
\* succeeded, and getIssue is called for every issue it references.
C15_SubFetchFailures ==
  (RootPullAvailable /\ CreateIssueInfoReturned) =>
    /\ pc = "planCodeChanges"
    /\ IsSome(issueInfo)
    /\ LET node == issueInfo[1]
           n == options.issueNumber
           diff == issues[n].diff
       IN /\ AllAmong(PlainEntries(1), node.comments)
          /\ AllAmong(ThreadEntries(1), node.comments)
          /\ AllAmong(VerdictEntries(1), node.comments)
          /\ (diff /= None /\ Trim(diff[1]) /= <<>>) => node.code_changes = Some(Trim(diff[1]))
          /\ SubFetches = <<Ev("getPullRequestDiff", n), Ev("getPullRequestReviewThreads", n),
                            Ev("getPullRequestReviews", n)>>
          /\ \A r \in Range(ReferencesOf(n)) \ {n} : r \in DOMAIN apiCalls /\ apiCalls[r] = 1

\* C15 witness: the diff request and the review-thread request of the
\* primary pull request failed, the review request succeeded; the node has
\* the two plain comments and the verdict, and item 2, which it references,
\* is below it.
C15_Witness ==
  /\ RootPullAvailable
  /\ CreateIssueInfoReturned
  /\ issues[1].diff = None
  /\ issues[1].reviewThreads = None
  /\ issues[1].reviews = Some(<<AReview("APPROVED", <<"v">>, Some(2))>>)
  /\ IsSome(issueInfo)
  /\ Len(issueInfo[1].comments) = 3
  /\ [i \in 1..3 |-> issueInfo[1].comments[i].body] = <<<<"b">>, <<"v">>, <<"a">>>>
  /\ issueInfo[1].code_changes = None
  /\ TitlesOf(issueInfo[1].referenced_issues) = <<2>>

\* ------------------------------------------ claims: the reduction of diffs
DiffReturned == call.fn = "processDiffContent" /\ IsSome(value)

\* C16: processDiffContent is idempotent: applied to its own output it
\* returns that output.
C16_Idempotent == DiffReturned => processDiffContent(value[1]) = value[1]

\* C17: the output of processDiffContent is at most MAX_TOTAL_DIFF_SIZE
\* characters long.
C17_TotalCap == DiffReturned => RunsLength(value[1]) <= MAX_TOTAL_DIFF_SIZE

\* The text ends with the notice of the remaining diffs.
EndsWithRemainingNotice(text) ==
  /\ RunsLength(text) >= RunsLength(RemainingTruncatedNotice)
  /\ RunsDrop(text, RunsLength(text) - RunsLength(RemainingTruncatedNotice))
       = RemainingTruncatedNotice

\* The text without the notice of the remaining diffs at its end.
WithoutRemainingNotice(text) ==
  IF EndsWithRemainingNotice(text)
  THEN RunsSlice(text, RunsLength(text) - RunsLength(RemainingTruncatedNotice))
  ELSE text

\* The kinds of file sections whose path matches a generated-file pattern.
GeneratedKinds == {3, 4}

\* The text has no line of added characters of the hunks drawn: no + is
\* followed by an x.
NoHunkContent(text) ==
  \A j \in 2..Len(text) : ~(text[j - 1].c = "+" /\ text[j].c = "x")

DiffExceedsCap ==
  DiffReturned /\ RunsLength(call.diffContent) > MAX_TOTAL_DIFF_SIZE

\* C18: when the diff exceeds the total cap, the file sections of the
\* output are those of a leading part of the input, in the same order; the
\* section of a generated file (dist/, .min.) is its four header lines and
\* the fixed notice, without any hunk content; the section of another file
\* of at most MAX_FILE_DIFF_SIZE characters is the section as it was; a
\* longer one still starts with its header lines.  The notice of the
\* remaining diffs may follow the last section.
C18_SectionsEmitted ==
  DiffExceedsCap =>
    LET emitted == SplitFileSections(value[1]) IN
    /\ Len(emitted) <= Len(call.kinds)
    /\ \A i \in 1..Len(emitted) :
         LET kind == call.kinds[i]
             header == KindHeader(kind)
             section == IF i = Len(emitted) THEN WithoutRemainingNotice(emitted[i])
                        ELSE emitted[i]
         IN /\ kind \in GeneratedKinds =>
                 /\ section = RunsConcat(header, LargeFileNotice)
                 /\ NoHunkContent(section)
            /\ kind = 1 => section = KindSection(kind)
            /\ kind = 2 => RunsSlice(section, RunsLength(header)) = header

\* C18 witness: of a bundle, a source file at the size of a file, a minified
\* file and three longer source files all six sections are in the output;
\* the bundle and the minified file are header lines and notice, the second
\* section is as it was.
C18_Witness ==
  /\ DiffExceedsCap
  /\ call.kinds = <<3, 1, 4, 2, 2, 2>>
  /\ LET emitted == SplitFileSections(value[1]) IN
     /\ Len(emitted) = 6
     /\ emitted[1] = RunsConcat(DistHeader, LargeFileNotice)
     /\ emitted[2] = SourceAtCap
     /\ emitted[3] = RunsConcat(MinHeader, LargeFileNotice)
     /\ ~EndsWithRemainingNotice(emitted[6])

\* ------------------------------------ claims: the body of the pull request
BodyReturned == call.fn = "prBody" /\ IsSome(value)

\* The characters c of the text.
Kept(text, c) == Cardinality({i \in 1..Len(text) : text[i] = c})

\* C19: the characters of the plan and of the transcript that the body
\* embeds, the truncation markers not counted, are together at most
\* MAX_PR_BODY_LENGTH.
C19_BodyCapped ==
  BodyReturned =>
    Kept(value[1].plan, "P") + Kept(value[1].log, "T") <= MAX_PR_BODY_LENGTH

\* ------------------------------------------------------ claims: the dry run
\* The operations that change the repository or the code host.
ChangingOps ==
  {"switchBase", "createBranch", "tool", "test", "commit", "commitNoVerify",
   "pushBase", "pushBranch", "createPullRequest"}

\* C20: in a dry run main performs no switch or creation of a branch, no
\* run of the coding tool, no test command, no git commit, no git push and
\* no creation of a pull request.
C20_DryRunChangesNothing == options.dryRun => EffectOpsSoFar \cap ChangingOps = {}

\* ------------------------------------------- claims: the order of the steps
\* The stage of main an external operation belongs to.
StageOf(op) ==
  CASE op = "getBaseBranch" -> 0
    [] op \in {"createIssueInfo", "getPullRequestDiff", "getPullRequestReviewThreads",
               "getPullRequestReviews"} -> 1
    [] op \in {"repomix", "repomixExit", "callLlmApi"} -> 2
    [] op \in {"createBranch", "switchBase"} -> 3
    [] op \in {"tool", "toolExit"} -> 4
    [] op \in {"test", "testExit", "fix"} -> 5
    [] op \in {"gitAdd", "commit", "commitNoVerify"} -> 6
    [] op \in {"pushBranch", "pushBase"} -> 7
    [] op = "createPullRequest" -> 8

\* How often the operation is among the effects.
Occurrences(op) == Cardinality({i \in 1..Len(effects) : effects[i].op = op})

\* The steps main makes once in a run that creates a branch, in order.
SingleSteps ==
  <<"createIssueInfo", "createBranch", "tool", "commit", "pushBranch", "createPullRequest">>

BranchRun == ~options.dryRun /\ ~options.noBranch

\* C21: in a run that creates a branch and is no dry run the external
\* operations come stage by stage: issue context, planning, branch creation,
\* coding tool, test/fix loop, commit, push, pull request.  No operation of
\* an earlier stage follows one of a later stage; the steps made once are
\* made at most once, each only after the one before it; the coding tool
\* runs only when the issue context is built; a run that ends normally has
\* made every one of them.
C21_StepsInOrder ==
  BranchRun =>
    /\ \A i \in 1..(Len(effects) - 1) :
         StageOf(effects[i].op) <= StageOf(effects[i + 1].op)
    /\ \A k \in 1..Len(SingleSteps) :
         /\ Occurrences(SingleSteps[k]) <= 1
         /\ (k > 1 /\ Occurrences(SingleSteps[k]) = 1)
              => Occurrences(SingleSteps[k - 1]) = 1
    /\ Occurrences("tool") = 1 => IsSome(issueInfo)
    /\ pc = "done" => \A k \in 1..Len(SingleSteps) : Occurrences(SingleSteps[k]) = 1

\* C21 witness: a run with a plan, a failing test, a fix and a passing test
\* has created its pull request.
C21_Witness ==
  /\ BranchRun
  /\ pc = "done"
  /\ Occurrences("callLlmApi") >= 1
  /\ Occurrences("test") = 2
  /\ Occurrences("fix") = 1
  /\ effects[Len(effects)].op = "createPullRequest"
  /\ effects[Len(effects) - 1].op = "pushBranch"

\* -------------------------------------------- claims: no test command
\* The configured command names no program: it is undefined, empty, or made
\* of spaces and quote characters only.
NoProgram ==
  LET command == OrEmpty(options.testCommand) IN
  \A i \in 1..Len(command) : command[i] \in {" ", "\"", "'"}

\* C22: when the test command is undefined, empty or parses to no program,
\* testAndFix returns success = true with an empty fixResult and no error,
\* and neither a test process nor the coding tool was started, whatever
\* maxTestAttempts is (0, negative and NaN included).
C22_NoCommandNoRun ==
  /\ NoProgram => pc \in {"testAndFix", "afterTest"}
  /\ (TestReturned /\ NoProgram) =>
       /\ test.success
       /\ test.fixResult = <<>>
       /\ test.error = None
       /\ effects = <<>>

C22_Witness ==
  /\ TestReturned
  /\ options.testCommand = Some(<<"\"", "\"">>)
  /\ options.maxTestAttempts = Num(MaxAttemptsBound)
  /\ test.success
  /\ effects = <<>>

\* ------------------------------------------- claims: the removal pattern
\* The text is matched as a whole by the atoms from k on.
RECURSIVE InLanguage(_, _, _)
InLanguage(atoms, k, text) ==
  IF k > Len(atoms) THEN text = <<>>
  ELSE IF atoms[k].star
  THEN \E n \in 0..Len(text) :
         /\ \A i \in 1..n : AtomMatches(atoms[k], text[i])
         /\ InLanguage(atoms, k + 1, SubSeq(text, n + 1, Len(text)))
  ELSE /\ text /= <<>>
       /\ AtomMatches(atoms[k], text[1])
       /\ InLanguage(atoms, k + 1, Tail(text))

\* The text is one non-empty match after the other.
RECURSIVE MatchesInARow(_, _)
MatchesInARow(atoms, text) ==
  \/ text = <<>>
  \/ \E n \in 1..Len(text) :
       /\ InLanguage(atoms, 1, SubSeq(text, 1, n))
       /\ MatchesInARow(atoms, SubSeq(text, n + 1, Len(text)))

\* The characters of the text at the positions outside `removed`.
RECURSIVE KeptFrom(_, _, _)
KeptFrom(text, removed, i) ==
  IF i > Len(text) THEN <<>>
  ELSE (IF i \in removed THEN <<>> ELSE <<text[i]>>) \o KeptFrom(text, removed, i + 1)

\* `removed` is a set of positions of the text that holds whole matches
\* only, and no non-empty match starts at a position that is kept.
EveryMatchRemoved(atoms, text, removed) ==
  /\ \A i, j \in 1..Len(text) :
       (/\ i <= j
        /\ \A k \in i..j : k \in removed
        /\ (i - 1) \notin removed
        /\ (j + 1) \notin removed)
       => MatchesInARow(atoms, SubSeq(text, i, j))
  /\ \A i \in (1..Len(text)) \ removed :
       \A j \in i..Len(text) : ~InLanguage(atoms, 1, SubSeq(text, i, j))

\* C23: removeRegexPattern never fails: an issue that was fetched always gets
\* its node, whatever the removal pattern; with an unset, empty or invalid
\* pattern the description is the (normalised) body unchanged, and with a
\* valid pattern it is the body without its matches: what is left out is made
\* of whole matches and no match starts at a character that stays.
C23_RemovalNeverFails ==
  \A t \in 1..Len(tasks) :
    (tasks[t].pc = "done" /\ IssueAvailable(tasks[t].num)) =>
      /\ IsSome(tasks[t].result)
      /\ LET body == ProcessedBody(issues[tasks[t].num])
             pattern == OrEmpty(options.removePattern)
             regex == NewRegExp(pattern)
             description == tasks[t].result[1].description
         IN IF pattern = <<>> \/ ~regex.ok
            THEN description = normalizeNewLines(body)
            ELSE \E removed \in SUBSET (1..Len(body)) :
                   /\ EveryMatchRemoved(regex.atoms, body, removed)
                   /\ description = normalizeNewLines(KeptFrom(body, removed, 1))

\* C23 witness: the pattern "[a" is no regular expression; the tree of issue
\* 1 was built with its body "ab\n#2" unchanged (but for the normalisation)
\* and with the node of issue 2.
C23_Witness ==
  /\ pc = "planCodeChanges"
  /\ options.removePattern = Some(<<"[", "a">>)
  /\ IsSome(issueInfo)
  /\ issueInfo[1].description = <<"a", "b", "\n", "#", "2">>
  /\ TitlesOf(issueInfo[1].referenced_issues) = <<2>>

\* A valid pattern took its matches out of the description of the tree.
RemovalHappened ==
  /\ pc = "planCodeChanges"
  /\ options.removePattern = Some(<<"b", "*">>)
  /\ IsSome(issueInfo)
  /\ issueInfo[1].description = <<"a", "\n", "#", "2">>

\* ------------------------------------------- claims: the attempt counts
\* The larger of 0 and a.
AtLeastZero(a) == IF a < 0 THEN 0 ELSE a

\* The fix invocations that have returned.
FixesReturned == Occurrences("fix") - (IF pc = "fixWait" THEN 1 ELSE 0)

\* C24 as stated: for every maxAttempts (a negative one read as 0) the test
\* command was run at most maxAttempts times and the fix at most
\* max(0, maxAttempts - 1) times; a fix is followed by a test run and never
\* follows a test run that exited 0; fixResult holds one section, attributed
\* to the coding tool, per fix invocation that returned.
C24_AttemptCounts ==
  LET N == options.maxTestAttempts IN
  /\ ~N.nan =>
       /\ Occurrences("test") * N.den <= AtLeastZero(N.val)
       /\ Occurrences("fix") * N.den <= AtLeastZero(N.val - N.den)
  /\ N.nan => Occurrences("test") = 0 /\ Occurrences("fix") = 0
  /\ \A i \in 1..Len(effects) :
       effects[i].op = "fix" =>
         /\ effects[i - 1].op = "testExit" /\ effects[i - 1].arg /= 0
         /\ i < Len(effects) => effects[i + 1].op = "test"
         /\ i = Len(effects) => pc = "fixWait"
  /\ FixSectionsIn(test.fixResult) = FixesReturned
  /\ MadeOfFixSections(test.fixResult)

\* The same for the whole values of maxAttempts.
WholeAttemptCounts == options.maxTestAttempts.den = 1 => C24_AttemptCounts

\* Three runs of the test command with maxTestAttempts = 2.5.
OneRunTooMany ==
  /\ TestReturned
  /\ options.maxTestAttempts = Halves(5)
  /\ Occurrences("test") = 3
  /\ Occurrences("fix") = 2

\* ------------------------------------ claims: the content of a header
\* The position of the first line feed of the text at or after position i,
\* Len(text) + 1 when the line of i is the last.
EndOfLine(text, i) ==
  Minimum({j \in i..Len(text) : text[j] = "\n"} \cup {Len(text) + 1})

\* The text from the end of the line of header i to the start of the first
\* line-start occurrence of the next header (to the end for the last).
AfterHeaderLine(text, headers, i) ==
  LET start == EndOfLine(text, Minimum(LineStartOccurrences(text, headers[i])))
      end == IF i < Len(headers)
             THEN Minimum(LineStartOccurrences(text, headers[i + 1])) - 1
             ELSE Len(text)
  IN SubSeq(text, start, end)

\* C25 as stated: on a successful extraction the content of each header is
\* the trimmed text between the end of the line of the header and the start
\* of the match of the next header (the end of the text for the last), so
\* that what follows the header on its own line is no part of the content.
C25_ContentAfterHeaderLine ==
  (call.fn = "extractHeaderContents" /\ IsSome(value) /\ IsSome(value[1])) =>
    \A i \in 1..Len(call.headers) :
      value[1][1][i] = Trim(AfterHeaderLine(call.text, call.headers, i))

\* The header A against the line "AB": the rest of the line is returned.
RestOfLineReturned ==
  /\ call.fn = "extractHeaderContents"
  /\ call.headers = <<<<"A">>>>
  /\ call.text = <<"A", "B", "\n", "A">>
  /\ value = Some(Some(<<<<"B", "\n", "A">>>>))

\* ------------------------------------ claims: the stop of the reduction
\* The notice of the remaining diffs without its first line feed: the text
\* of its line, which starts a run of the encoded output.
RemainingNoticeLine == Tail(RemainingTruncatedNotice)

\* How many times the output holds the notice of the remaining diffs.
RemainingNotices(text) ==
  Cardinality({j \in 1..Len(text) : RunsStartWith(text, j, RemainingNoticeLine)})

\* The size emitted for the first i file sections of the output, the notice
\* of the remaining diffs not counted.
EmittedSize(emitted, i) ==
  RunsLength(WithoutRemainingNotice(JoinSections(SubSeq(emitted, 1, i))))

OverThreshold(size) == size * 10 > MAX_TOTAL_DIFF_SIZE * 9

\* C26: when the diff exceeds the total cap, the file sections are emitted
\* in order up to the first one after which the emitted size exceeds 90% of
\* the cap; the notice of the remaining diffs is appended exactly once
\* there and nothing of a later section is emitted.  When the size never
\* exceeds the threshold there is no notice and every section is emitted.
C26_StopsAtThreshold ==
  DiffExceedsCap =>
    LET emitted == SplitFileSections(value[1])
        n == Len(emitted)
    IN /\ n >= 1 /\ n <= Len(call.kinds)
       /\ \A i \in 1..n : RunsSlice(emitted[i], RunsLength(KindHeader(call.kinds[i])))
                               = KindHeader(call.kinds[i])
       /\ \A i \in 1..(n - 1) : ~OverThreshold(EmittedSize(emitted, i))
       /\ IF OverThreshold(EmittedSize(emitted, n))
          THEN EndsWithRemainingNotice(value[1]) /\ RemainingNotices(value[1]) = 1
          ELSE n = Len(call.kinds) /\ RemainingNotices(value[1]) = 0

\* C26 witness: of five source files over the size of a file and a sixth at
\* it, the fifth section takes the emitted size over the threshold: five
\* sections and the notice are the output.
C26_Witness ==
  /\ DiffExceedsCap
  /\ call.kinds = <<2, 2, 2, 2, 2, 1>>
  /\ Len(SplitFileSections(value[1])) = 5
  /\ EndsWithRemainingNotice(value[1])
  /\ RemainingNotices(value[1]) = 1

\* ------------------------------------ claims: the order of the fetches
\* The tasks of st whose request can complete, and those whose referenced
\* fetches have all returned.
AwaitingGetIssue(st) == {t \in 1..Len(st.tasks) : st.tasks[t].pc = "getIssue"}

AwaitingChildren(st) ==
  {t \in 1..Len(st.tasks) :
     /\ st.tasks[t].pc = "children"
     /\ \A i \in 1..Len(st.tasks[t].children) :
          st.tasks[t].children[i] /= 0 => st.tasks[st.tasks[t].children[i]].pc = "done"}

\* The fetch machine run from st with the requests completing in the order
\* in which they were issued, up to the return of the primary.
RECURSIVE InOrderRun(_)
InOrderRun(st) ==
  IF st.tasks[1].pc = "done" THEN st
  ELSE IF AwaitingGetIssue(st) /= {}
  THEN LET t == Minimum(AwaitingGetIssue(st)) IN
       IF ~IssueAvailable(st.tasks[t].num)
       THEN InOrderRun([st EXCEPT !.tasks[t].pc = "done", !.tasks[t].result = None])
       ELSE LET task == GatherIssue(st.tasks[t], issues[st.tasks[t].num])
                comments == CHOOSE c \in FinalCommentsOutcomes(task.commentsWithDate) : TRUE
            IN InOrderRun(StartReferenced([st EXCEPT !.tasks[t] = task], t, comments))
  ELSE LET t == Minimum(AwaitingChildren(st))
           comments == CHOOSE c \in FinalCommentsOutcomes(st.tasks[t].commentsWithDate) : TRUE
       IN InOrderRun([st EXCEPT !.tasks[t] = SettleReferenced(st.tasks, t, comments)])

\* The tree createIssueInfo returns when the requests complete in order.
InOrderTree ==
  InOrderRun([tasks |-> <<NewTask(options.issueNumber, FALSE)>>,
              visited |-> {options.issueNumber},
              apiCalls |-> <<>>]).tasks[1].result

\* C27 as stated: for a fixed code host the tree createIssueInfo returns is
\* the same for every order in which the concurrent fetches complete: it is
\* the tree of the run in which they complete in the order of their issue.
C27_SameTreeForEveryOrder ==
  (CreateIssueInfoReturned /\ IsSome(issueInfo)) => issueInfo = InOrderTree

\* Issue 1 names 3 and 2, which both name 4; the fetch of 2 completed before
\* that of 3 and issue 4 stands under 2, not under 3.
AttachedToLaterSibling ==
  /\ CreateIssueInfoReturned
  /\ IsSome(issueInfo)
  /\ TitlesOf(issueInfo[1].referenced_issues) = <<3, 2>>
  /\ TitlesOf(issueInfo[1].referenced_issues[1].referenced_issues) = <<>>
  /\ TitlesOf(issueInfo[1].referenced_issues[2].referenced_issues) = <<4>>

\* The same host with the fetch of 3 completing first: issue 4 under 3.
AttachedToFirstSibling ==
  /\ CreateIssueInfoReturned
  /\ IsSome(issueInfo)
  /\ issues[1] = IssueText(1, 4) /\ issues[2] = IssueText(2, 4) /\ issues[3] = IssueText(3, 2)
  /\ issues[4].ok
  /\ TitlesOf(issueInfo[1].referenced_issues) = <<3, 2>>
  /\ TitlesOf(issueInfo[1].referenced_issues[1].referenced_issues) = <<4>>
  /\ TitlesOf(issueInfo[1].referenced_issues[2].referenced_issues) = <<>>

\* ------------------------------------ claims: the draft and its errors
\* main has created the pull request.
PullRequestCreated == pc = "done" /\ Occurrences("createPullRequest") = 1

\* The labels of the error sections of the body of the pull request.
ErrorLabels == {host[1].body.errorLogs[i].label : i \in 1..Len(host[1].body.errorLogs)}

\* C28 as stated: a pull request main flags as draft has in its body the
\* error section of each stage that failed (the tool execution error when
\* the coding tool exited nonzero, the test execution error when the
\* test/fix loop ended with success = false); and a body with an error
\* section belongs to a pull request flagged as draft.
C28_DraftHasErrorSections ==
  PullRequestCreated =>
    /\ PullRequestParams.draft =>
         /\ ~main.toolSuccess => "Execution Error" \in ErrorLabels
         /\ ~main.testSuccess => "Test Execution Error" \in ErrorLabels
    /\ ErrorLabels /= {} => PullRequestParams.draft

\* A draft for a test/fix loop that ran no test: no error section at all.
DraftWithoutErrorSection ==
  /\ PullRequestCreated
  /\ PullRequestParams.draft
  /\ main.toolSuccess
  /\ ~main.testSuccess
  /\ options.maxTestAttempts = Num(0)
  /\ ErrorLabels = {}

\* The same when maxTestAttempts lets the test command run.
DraftHasErrorSectionsWhenRun ==
  (~options.maxTestAttempts.nan /\ options.maxTestAttempts.val >= 1) => C28_DraftHasErrorSections

\* ------------------------------------ claims: the shape of the plan
\* The path listed under File Paths to be Referred in the answers drawn.
ListedPathToBeReferred == <<"r">>

\* The first answer holds both headings of the file lists, the one of the
\* files to be modified first.
FileListsInOrder == HeadersInOrder(trimCodeBlockFences(llm[1]), HeadersOfFileLists)

\* C29: in the ResolutionPlan planCodeChanges returns, plan and
\* commitMessage are both defined or both undefined; in two-stage planning
\* the second call of the LLM is made only when the first answer was
\* parsed, and filePaths holds paths of the list to be modified only, never
\* one of the list to be referred.
C29_PlanShape ==
  /\ LlmCalls = 2 => (options.twoStagePlanning /\ FileListsInOrder)
  /\ PlanReturned =>
       LET rp == resolutionPlan[1] IN
       /\ IsSome(rp.plan) <=> IsSome(rp.commitMessage)
       /\ options.twoStagePlanning =>
            /\ Range(rp.filePaths) \subseteq Range(ListedPathsToBeModified)
            /\ ListedPathToBeReferred \notin Range(rp.filePaths)
            /\ rp.filePaths /= <<>> => FileListsInOrder

\* C29 witness: two-stage planning whose first answer lists a and b to be
\* modified and r to be referred, and whose second answer was parsed: the
\* plan and the commit message are defined and the paths are a and b.
C29_Witness ==
  /\ PlanReturned
  /\ options.twoStagePlanning
  /\ LlmCalls = 2
  /\ HasHeading(trimCodeBlockFences(llm[1]), HEADING_OF_FILE_PATHS_TO_BE_REFERRED)
  /\ IsSome(resolutionPlan[1].plan)
  /\ IsSome(resolutionPlan[1].commitMessage)
  /\ resolutionPlan[1].filePaths = ListedPathsToBeModified

\* ------------------------------------ claims: the run without a branch
\* The positions of the effects with the given op.
PositionsOf(op) == {i \in 1..Len(effects) : effects[i].op = op}

\* C30: with noBranch, main creates no branch and no pull request in any
\* run, and pushes no branch of its own; outside a dry run the coding tool
\* runs only after the switch to the base branch succeeded and a run that
\* reaches its end has pushed the base branch after its commit; the draft
\* flag and the error sections main computed reach no pull request.
C30_NoBranchNoPullRequest ==
  options.noBranch =>
    /\ PositionsOf("createBranch") = {}
    /\ PositionsOf("pushBranch") = {}
    /\ PositionsOf("createPullRequest") = {}
    /\ host = <<>>
    /\ ~options.dryRun =>
         /\ \A i \in PositionsOf("tool") :
              \E j \in PositionsOf("switchBase") : j < i /\ effects[j].arg = 0
         /\ pc = "done" =>
              /\ effects[Len(effects)] = Ev("pushBase", 0)
              /\ \E j \in PositionsOf("commit") : j < Len(effects)
    /\ options.dryRun => PositionsOf("switchBase") = {} /\ PositionsOf("pushBase") = {}

\* C30 witness: a run without a branch, outside a dry run, in which the
\* coding tool failed, reached its end: the draft flag and an error section
\* were computed, the base branch was pushed and there is no pull request.
C30_Witness ==
  /\ options.noBranch
  /\ ~options.dryRun
  /\ pc = "done"
  /\ main.shouldBeDraft
  /\ main.errorLogs /= <<>>
  /\ PositionsOf("switchBase") /= {}
  /\ effects[Len(effects)] = Ev("pushBase", 0)
  /\ host = <<>>

====
